---------------------------- MODULE Spec2Model ----------------------------
(***************************************************************************)
(* A model of the matterbridge gateway core: the Matrix rate-limit/retry   *)
(* harness (bridge/matrix/helpers.go), the adapters' Send functions, the   *)
(* gateway's handleMessage (gateway/handlers.go), the adapters' reader     *)
(* tasks and the router's dispatch loop.                                   *)
(***************************************************************************)
EXTENDS Integers, Sequences, FiniteSets, TLC

(***************************************************************************)
(* Bounds of the model.                                                    *)
(***************************************************************************)
\* concurrent callers of one Matrix adapter (Send / JoinChannel)
NTasks == 2
\* rate-limit answers the homeserver gives within one retry call
MaxRateLimits == 2
\* retry-wrapped operations started in one run
MaxOps == 3
\* envelopes the gateway dispatches in one run
MaxMsgs == 2
\* destination sends that fail in one run
MaxFails == 1
\* events the backends produce in one run
MaxEvents == 2
\* capacity of the ingress channel
MaxIngress == 2
\* times the XMPP connection is lost in one run
MaxDrops == 1
\* connect attempts the XMPP server refuses in one reconnect cycle
MaxRefusals == 2

VARIABLES
    \* --- Matrix adapter, retry harness (bridge/matrix/helpers.go) ---
    rateMutex,   \* Bmatrix.rateMutex: the task holding it, or NoTask
    pc,          \* per task: its position inside retry
    op,          \* per task: the operation whose closure f retry runs
    calls,       \* per task: invocations of f in the current retry call
    succ,        \* per task: invocations of f that returned nil
    limited,     \* per task: invocations of f answered M_LIMIT_EXCEEDED
    backoff,     \* per task: the duration of the sleep in progress (ms)
    slept,       \* per task: total time slept in the current retry call (ms)
    lastErr,     \* per task: what the last invocation of f returned
    result,      \* per task: what retry returned
    RoomMap,     \* Bmatrix.RoomMap: the rooms JoinChannel has recorded
    opsLeft,     \* operations that may still be started
    \* --- gateway (gateway/handlers.go) ---
    gwInOut,        \* the gateway's inout channel list
    cfg,            \* the <<account, key>> pairs of the boolean options that are set
    xmppConnected,  \* Bxmpp.connected
    table,          \* the gateway's correlation table: canonical key -> tuples
    envLog,         \* the envelopes dispatched so far, in order
    sendLog,        \* one record per call of a destination adapter's Send
    failsLeft,      \* sends that may still fail
    \* --- adapters, ingress channel and router task ---
    ingress,        \* the shared channel the adapters publish to (b.Remote)
    produced,       \* events each origin backend has produced so far
    downloads,      \* envelopes held by background download tasks
    routerPc,       \* the router task: idle, send, retry, join
    current,        \* the envelope the router is handling
    todo,           \* destination channels (or rooms) still to do for it
    callsLeft,      \* retry-wrapped calls the current Matrix Send still makes
    relayLog,       \* one record per Send the router has issued, in order
    joined,         \* Bridge.Joined of the XMPP bridge
    connPc,         \* Bxmpp.manageConnection: handle, reconnect, rejoin
    connFails,      \* connect attempts refused in the running reconnect cycle
    refused,        \* connect attempts refused in the last finished cycle
    reconnects,     \* reconnect cycles finished
    rejoinsDone,    \* rejoin-channels events the router has handled
    dropsLeft,      \* connection losses still to come
    \* --- the adapters' readers and the echo of what the bridge sent ---
    xmppNick,       \* the configured Nick of the XMPP bridge
    pending,        \* backend events not yet handed to the adapter's reader
    remoteQ,        \* envelopes published on b.Remote, not yet routed
    readLog,        \* one record per backend event a reader has handled
    posts,          \* backend events that users have caused so far
    relays,         \* envelopes the router has relayed so far
    \* --- media server (gateway/mediaserver.go, Gateway.handleFiles) ---
    mediaCfg,       \* the [general] settings the media server is created from
    mediaServer,    \* what createMediaServer returned
    msgFiles,       \* msg.Extra["file"] of the envelope given to handleFiles
    msgFields,      \* the other fields of that envelope
    stored,         \* what the uploads wrote: <<place, data>> in order
    mediaPc,        \* configured, created, handled
    \* --- attachments of incoming messages (Bridge.addAttachment) ---
    attCfg,         \* General.MediaDownloadSize and MediaDownloadBlackList
    attFiles,       \* msg.Extra["file"]
    attCall,        \* the arguments of the call of addAttachment
    attErr,         \* what addAttachment returned
    attPc,          \* ready, returned, fatal
    \* --- one bridge from Connect to Disconnect ---
    lifeAcc,        \* the account of the bridge
    lifePc,         \* the gateway's side: new, connected, joined
    lifeReader,     \* the reader task: none, spawned, running, handling,
                    \* reconnect, stopped
    lifeCancelled,  \* Bmastodon.handles have been called
    disconnects,    \* calls of Disconnect that have returned
    lost,           \* times handleXMPP returned an error
    lifeLog,        \* what Connect and Send returned and what was published
    \* --- joining the channels (Bridge.JoinChannels, rejoin-channels) ---
    brJoined,       \* br.Joined of every bridge: the channel IDs joined
    joinLog,        \* the calls of JoinChannels and of the rejoin handler
    \* --- concurrent Sends of one Matrix bridge ---
    sendPlan,       \* per task: the backend requests its Send has still to make
    sendDone,       \* per task: the requests its Send has issued so far
    lastReq,        \* the backend request issued last
    \* --- the ingress channel b.Remote under load ---
    bpBuf,          \* the envelopes in the channel's buffer
    bpSendq,        \* the senders blocked on the full channel, in order
    bpSeen,         \* per reader: the backend events it has taken
    bpDecided,      \* the user messages the readers decided to publish
    bpTaken,        \* per message: how often the router received it
    \* --- the nickname cache of the Matrix bridge ---
    NicknameMap,    \* b.NicknameMap: localpart -> display name, last update
    nickNow,        \* the clock, in units of five minutes
    nickCall,       \* the last call of cacheDisplayName and what it did
    nickCalls,      \* the calls of cacheDisplayName made
    \* --- the two locks of the Matrix bridge ---
    lkPlan,         \* per task: the lock steps left of the call it is in
    lkHeld,         \* per task: the locks it holds
    lkPending,      \* the tasks inside Lock() that wait for the readers
    lkOps,          \* the calls started
    \* --- handleExtractNicks ---
    enPairs,        \* the ExtractNicks setting of the bridge
    enCall,         \* the last message handled and what became of it
    \* --- the avatar maps of the XMPP bridge ---
    avatarMap,          \* b.avatarMap: user -> hash of the uploaded avatar
    avatarAvailability, \* b.avatarAvailability: user -> avatar data received
    avReader,           \* where the reader task is, and for which user
    avRouter,           \* where the router task is inside Send
    avRequested,        \* users whose avatar data has been requested
    avPending,          \* avatar envelopes on their way through the gateway
    avCrashed,          \* the runtime stopped the program
    \* --- the upload slots of the XMPP bridge ---
    httpUploadBuffer,   \* b.httpUploadBuffer: the file ids with an entry
    upWire,             \* slot requests sent whose response the reader has not read
    upFile              \* per file: where its upload is and what was announced

retryVars == <<rateMutex, pc, op, calls, succ, limited, backoff, slept,
               lastErr, result, RoomMap, opsLeft>>

gwVars == <<gwInOut, cfg, xmppConnected, table, envLog, sendLog, failsLeft>>

gwConfig == <<gwInOut, cfg, table, envLog, sendLog, failsLeft>>

relayVars == <<ingress, produced, downloads, routerPc, current, todo, callsLeft,
               relayLog, joined, connPc, connFails, refused, reconnects,
               rejoinsDone, dropsLeft>>

echoVars == <<xmppNick, pending, remoteQ, readLog, posts, relays>>

\* the variables of the parts of the program modelled after the relay
mediaVars == <<mediaCfg, mediaServer, msgFiles, msgFields, stored, mediaPc>>

attachVars == <<attCfg, attFiles, attCall, attErr, attPc>>

lifeVars == <<lifeAcc, lifePc, lifeReader, lifeCancelled, disconnects, lost, lifeLog>>

joinVars == <<brJoined, joinLog>>

serialVars == <<sendPlan, sendDone, lastReq>>

bpVars == <<bpBuf, bpSendq, bpSeen, bpDecided, bpTaken>>

nickVars == <<NicknameMap, nickNow, nickCall, nickCalls>>

\* the variables of the caches, locks and upload flows of the bridges
lockVars == <<lkPlan, lkHeld, lkPending, lkOps>>

extractVars == <<enPairs, enCall>>

avatarVars == <<avatarMap, avatarAvailability, avReader, avRouter, avRequested,
                avPending, avCrashed>>

uploadVars == <<httpUploadBuffer, upWire, upFile>>

ext3Vars == <<nickVars, lockVars, extractVars, avatarVars, uploadVars>>

\* the variables of the parts of the program modelled after the lifecycle
ext2Vars == <<joinVars, serialVars, bpVars, ext3Vars>>

extVars == <<echoVars, mediaVars, attachVars, lifeVars, ext2Vars>>

vars == <<retryVars, gwVars, relayVars, extVars>>

(***************************************************************************)
(* Errors a backend call can return.  A mautrix.HTTPError carries the      *)
(* response body; any other error does not.                                *)
(***************************************************************************)
NoTask == 0
Tasks == 1..NTasks

Nil == [http |-> FALSE, parsable |-> FALSE, errcode |-> "nil", retry_after_ms |-> 0]

\* the values f can return besides nil: an error that is no mautrix.HTTPError
\* (whatever its text says), an HTTP error whose body is no JSON, an HTTP error
\* with a JSON body (with or without errcode and retry_after_ms)
BackendErrors ==
    { [http |-> FALSE, parsable |-> FALSE, errcode |-> "M_LIMIT_EXCEEDED", retry_after_ms |-> 250],
      [http |-> TRUE,  parsable |-> FALSE, errcode |-> "M_LIMIT_EXCEEDED", retry_after_ms |-> 250],
      [http |-> TRUE,  parsable |-> TRUE,  errcode |-> "M_FORBIDDEN",      retry_after_ms |-> 250],
      [http |-> TRUE,  parsable |-> TRUE,  errcode |-> "M_LIMIT_EXCEEDED", retry_after_ms |-> 250] }

IsRateLimitSignal(e) ==
    e.http /\ e.parsable /\ e.errcode = "M_LIMIT_EXCEEDED"

\* a faulty handleError: the error is read without the HTTPError type check
handleError_NoTypeCheck(err) ==
    [Errcode |-> err.errcode, Err |-> "", RetryAfterMs |-> err.retry_after_ms]

\* handleError: the httpError an error converts to
handleError(err) ==
    IF ~err.http
    THEN [Errcode |-> "", Err |-> "not a HTTPError", RetryAfterMs |-> 0]
    ELSE IF ~err.parsable
         THEN [Errcode |-> "", Err |-> "unmarshal failed", RetryAfterMs |-> 0]
         ELSE [Errcode |-> err.errcode, Err |-> "", RetryAfterMs |-> err.retry_after_ms]

\* a faulty handleRatelimit: no error counts as a rate limit
handleRatelimit_Never(err) ==
    [backoff |-> 0, ok |-> FALSE]

\* handleRatelimit: (the time to sleep, whether we are rate limited)
handleRatelimit(err) ==
    LET httpErr == handleError(err)
    IN  IF httpErr.Errcode # "M_LIMIT_EXCEEDED"
        THEN [backoff |-> 0, ok |-> FALSE]
        ELSE [backoff |-> httpErr.RetryAfterMs, ok |-> TRUE]

(***************************************************************************)
(* retry(f), one task t.  Positions: idle (not in retry), lock (blocked in *)
(* rateMutex.Lock), call (holding the lock, about to invoke f), wait (f's  *)
(* backend request in flight), sleep (time.Sleep(backoff)), done (retry    *)
(* returned; the deferred Unlock has run).                                 *)
(***************************************************************************)
Ops == {"Send", "JoinChannel"}

InHarness == {"call", "wait", "sleep"}

\* a caller enters retry: JoinChannel (matrix.go:192) or one of Send's
\* retry-wrapped backend calls (matrix.go:256..442)
retryEnter(t, o) ==
    /\ pc[t] = "idle"
    /\ pc' = [pc EXCEPT ![t] = "lock"]
    /\ op' = [op EXCEPT ![t] = o]
    /\ UNCHANGED <<rateMutex, calls, succ, limited, backoff, slept, lastErr,
                   result, RoomMap>>

\* one of the callers of the harness starts an operation
StartOp(t, o) ==
    /\ opsLeft > 0
    /\ opsLeft' = opsLeft - 1
    /\ retryEnter(t, o)

\* a faulty lock: Lock() succeeds whoever holds the mutex
rateMutexFree_NoExclusion ==
    TRUE

\* b.rateMutex.Lock() succeeds only while nobody holds the mutex
rateMutexFree ==
    rateMutex = NoTask

retryLock(t) ==
    /\ pc[t] = "lock"
    /\ rateMutexFree
    /\ rateMutex' = t
    /\ pc' = [pc EXCEPT ![t] = "call"]
    /\ UNCHANGED <<op, calls, succ, limited, backoff, slept, lastErr, result,
                   RoomMap, opsLeft>>

\* f() is invoked: the backend request leaves
retryInvoke(t) ==
    /\ pc[t] = "call"
    /\ pc' = [pc EXCEPT ![t] = "wait"]
    /\ calls' = [calls EXCEPT ![t] = @ + 1]
    /\ UNCHANGED <<rateMutex, op, succ, limited, backoff, slept, lastErr,
                   result, RoomMap, opsLeft>>

\* defer b.rateMutex.Unlock()
rateMutexUnlock(t) ==
    IF rateMutex = t THEN NoTask ELSE rateMutex

\* f() returned nil: retry returns nil, the deferred Unlock runs.
\* JoinChannel's closure records the room under b.Lock before it returns.
retryReturnNil(t) ==
    /\ pc[t] = "wait"
    /\ pc' = [pc EXCEPT ![t] = "done"]
    /\ succ' = [succ EXCEPT ![t] = @ + 1]
    /\ lastErr' = [lastErr EXCEPT ![t] = Nil]
    /\ result' = [result EXCEPT ![t] = Nil]
    /\ RoomMap' = IF op[t] = "JoinChannel" THEN RoomMap \cup {"room"} ELSE RoomMap
    /\ rateMutex' = rateMutexUnlock(t)
    /\ UNCHANGED <<op, calls, limited, backoff, slept, opsLeft>>

\* f() returned err: either sleep and loop, or return err (Unlock runs)
retryError(t, err) ==
    /\ pc[t] = "wait"
    /\ (IsRateLimitSignal(err) \/ handleRatelimit(err).ok) => limited[t] < MaxRateLimits
    /\ lastErr' = [lastErr EXCEPT ![t] = err]
    /\ LET rl == handleRatelimit(err)
       IN  IF rl.ok
           THEN /\ pc' = [pc EXCEPT ![t] = "sleep"]
                /\ limited' = [limited EXCEPT ![t] = @ + 1]
                /\ backoff' = [backoff EXCEPT ![t] = rl.backoff]
                /\ UNCHANGED <<rateMutex, result>>
           ELSE /\ pc' = [pc EXCEPT ![t] = "done"]
                /\ result' = [result EXCEPT ![t] = err]
                /\ rateMutex' = rateMutexUnlock(t)
                /\ UNCHANGED <<limited, backoff>>
    /\ UNCHANGED <<op, calls, succ, slept, RoomMap, opsLeft>>

\* time.Sleep(backoff) is over: the loop invokes f again
retryWake(t) ==
    /\ pc[t] = "sleep"
    /\ pc' = [pc EXCEPT ![t] = "call"]
    /\ slept' = [slept EXCEPT ![t] = @ + backoff[t]]
    /\ backoff' = [backoff EXCEPT ![t] = 0]
    /\ UNCHANGED <<rateMutex, op, calls, succ, limited, lastErr, result,
                   RoomMap, opsLeft>>

\* the caller takes retry's result and goes on
retryLeave(t) ==
    /\ pc[t] = "done"
    /\ pc' = [pc EXCEPT ![t] = "idle"]
    /\ op' = [op EXCEPT ![t] = "Send"]
    /\ calls' = [calls EXCEPT ![t] = 0]
    /\ succ' = [succ EXCEPT ![t] = 0]
    /\ limited' = [limited EXCEPT ![t] = 0]
    /\ slept' = [slept EXCEPT ![t] = 0]
    /\ lastErr' = [lastErr EXCEPT ![t] = Nil]
    /\ result' = [result EXCEPT ![t] = Nil]
    /\ UNCHANGED <<rateMutex, backoff, RoomMap, opsLeft>>

\* the gateway is not part of the harness: its state stays as constructed
\* the readers' part of the model at rest
EchoIdle ==
    /\ xmppNick = <<>>
    /\ pending = <<>>
    /\ remoteQ = <<>>
    /\ readLog = <<>>
    /\ posts = 0
    /\ relays = 0

\* the media server's part of the model at rest
MediaIdle ==
    /\ mediaCfg = <<>>
    /\ mediaServer = <<>>
    /\ msgFiles = <<>>
    /\ msgFields = <<>>
    /\ stored = <<>>
    /\ mediaPc = "idle"

\* the attachments' part of the model at rest
AttachIdle ==
    /\ attCfg = <<>>
    /\ attFiles = <<>>
    /\ attCall = <<>>
    /\ attErr = ""
    /\ attPc = "idle"

\* no bridge is followed from Connect to Disconnect
LifeIdle ==
    /\ lifeAcc = ""
    /\ lifePc = "idle"
    /\ lifeReader = "none"
    /\ lifeCancelled = FALSE
    /\ disconnects = 0
    /\ lost = 0
    /\ lifeLog = <<>>

\* the joining of channels at rest
JoinIdle ==
    /\ brJoined = <<>>
    /\ joinLog = <<>>

\* no Send of the Matrix bridge is running
SerialIdle ==
    /\ sendPlan = <<>>
    /\ sendDone = <<>>
    /\ lastReq = <<>>

\* the loaded ingress channel's part of the model at rest
BpIdle ==
    /\ bpBuf = <<>>
    /\ bpSendq = <<>>
    /\ bpSeen = <<>>
    /\ bpDecided = {}
    /\ bpTaken = <<>>

\* the nickname cache at rest
NickIdle ==
    /\ NicknameMap = <<>>
    /\ nickNow = 0
    /\ nickCall = <<>>
    /\ nickCalls = 0

\* the tasks that call into the Matrix bridge
LockTasks == {"main", "router", "syncer"}

\* no call in progress
LockIdle ==
    /\ lkPlan = [t \in LockTasks |-> <<>>]
    /\ lkHeld = [t \in LockTasks |-> {}]
    /\ lkPending = {}
    /\ lkOps = 0

\* no ExtractNicks setting, no message handled
ExtractIdle ==
    /\ enPairs = <<>>
    /\ enCall = <<>>

\* a task that is not inside an access of the avatar maps
NoAccess == [pc |-> "idle", user |-> "", sha |-> "", locked |-> FALSE]

\* empty avatar maps, both tasks outside
AvatarIdle ==
    /\ avatarMap = <<>>
    /\ avatarAvailability = <<>>
    /\ avReader = NoAccess
    /\ avRouter = NoAccess
    /\ avRequested = {}
    /\ avPending = {}
    /\ avCrashed = FALSE

\* the files other bridges hand to the XMPP bridge
FileIds == {"f1", "f2", "f3"}

\* a file for which nothing has happened yet
NewFile == [pc |-> "new", lookup |-> "none", put |-> "none", announced |-> <<>>]

\* no upload requested
UploadIdle ==
    /\ httpUploadBuffer = {}
    /\ upWire = {}
    /\ upFile = [id \in FileIds |-> NewFile]

Ext3Idle == NickIdle /\ LockIdle /\ ExtractIdle /\ AvatarIdle /\ UploadIdle

\* all of these parts but one at rest, and left alone
Ext3IdleBut(part) ==
    /\ IF part = "nick" THEN TRUE ELSE NickIdle
    /\ IF part = "lock" THEN TRUE ELSE LockIdle
    /\ IF part = "extract" THEN TRUE ELSE ExtractIdle
    /\ IF part = "avatar" THEN TRUE ELSE AvatarIdle
    /\ IF part = "upload" THEN TRUE ELSE UploadIdle

Ext3UnchangedBut(part) ==
    /\ IF part = "nick" THEN TRUE ELSE UNCHANGED nickVars
    /\ IF part = "lock" THEN TRUE ELSE UNCHANGED lockVars
    /\ IF part = "extract" THEN TRUE ELSE UNCHANGED extractVars
    /\ IF part = "avatar" THEN TRUE ELSE UNCHANGED avatarVars
    /\ IF part = "upload" THEN TRUE ELSE UNCHANGED uploadVars

Ext2Idle == JoinIdle /\ SerialIdle /\ BpIdle /\ Ext3Idle

ExtIdle == EchoIdle /\ MediaIdle /\ AttachIdle /\ LifeIdle /\ Ext2Idle

GwIdle ==
    /\ gwInOut = <<>>
    /\ cfg = {}
    /\ xmppConnected = TRUE
    /\ table = <<>>
    /\ envLog = <<>>
    /\ sendLog = <<>>
    /\ failsLeft = 0

\* the router holds no envelope
NoMsg == [account |-> "", channel |-> "", event |-> "", seq |-> 0, file |-> 0]

\* no adapter is running and the router has nothing to do
RelayIdle ==
    /\ ingress = <<>>
    /\ produced = 0
    /\ downloads = {}
    /\ routerPc = "idle"
    /\ current = NoMsg
    /\ todo = <<>>
    /\ callsLeft = 0
    /\ relayLog = <<>>
    /\ joined = {}
    /\ connPc = "handle"
    /\ connFails = 0
    /\ refused = 0
    /\ reconnects = 0
    /\ rejoinsDone = 0
    /\ dropsLeft = 0

RetryInit ==
    /\ ExtIdle
    /\ GwIdle
    /\ RelayIdle
    /\ rateMutex = NoTask
    /\ pc = [t \in Tasks |-> "idle"]
    /\ op = [t \in Tasks |-> "Send"]
    /\ calls = [t \in Tasks |-> 0]
    /\ succ = [t \in Tasks |-> 0]
    /\ limited = [t \in Tasks |-> 0]
    /\ backoff = [t \in Tasks |-> 0]
    /\ slept = [t \in Tasks |-> 0]
    /\ lastErr = [t \in Tasks |-> Nil]
    /\ result = [t \in Tasks |-> Nil]
    /\ RoomMap = {}
    /\ opsLeft = MaxOps

RetryNext ==
    \E t \in Tasks :
        \/ \E o \in Ops : StartOp(t, o)
        \/ retryLock(t)
        \/ retryInvoke(t)
        \/ retryReturnNil(t)
        \/ \E err \in BackendErrors : retryError(t, err)
        \/ retryWake(t)
        \/ retryLeave(t)

SpecRetry == RetryInit /\ [][RetryNext /\ UNCHANGED <<gwVars, relayVars, extVars>>]_vars

(***************************************************************************)
(* Claims about the retry harness.                                         *)
(***************************************************************************)

\* C6: while one caller is inside the retry harness (invoking f, waiting for
\* the backend, or sleeping after M_LIMIT_EXCEEDED) no other caller of the same
\* adapter is inside it: at most one retry-wrapped backend call is in progress,
\* its task holds rateMutex, and every other task is outside or blocked in Lock.
C6_OneCallInProgress ==
    /\ Cardinality({t \in Tasks : pc[t] \in InHarness}) <= 1
    /\ \A t \in Tasks : pc[t] \in InHarness => rateMutex = t
    /\ \A t \in Tasks : pc[t] \notin InHarness => rateMutex # t

\* C6 witness: one caller sleeps after a slow-down answer while another caller
\* is blocked in rateMutex.Lock.
C6_Witness ==
    \E t, u \in Tasks :
        /\ t # u
        /\ pc[t] = "sleep" /\ limited[t] >= 1
        /\ pc[u] = "lock"

\* C7: retry keeps invoking f while f answers with the rate-limit signal and
\* returns only on success or on another error: it never returns a rate-limit
\* error; when it returns nil after k slow-down answers f was invoked exactly
\* k+1 times, exactly one invocation succeeded, and rateMutex is released; and
\* until then every earlier invocation was a slow-down answer followed by a
\* sleep of the requested duration.
C7_RetryUntilNotLimited ==
    \A t \in Tasks :
        /\ pc[t] = "done" => ~IsRateLimitSignal(result[t]) /\ rateMutex # t
        /\ (pc[t] = "done" /\ result[t] = Nil) =>
               /\ calls[t] = limited[t] + 1
               /\ succ[t] = 1
        /\ pc[t] = "call" => calls[t] = limited[t] /\ succ[t] = 0
        /\ pc[t] = "sleep" => calls[t] = limited[t] /\ backoff[t] = lastErr[t].retry_after_ms

\* C7 witness: retry returned nil after two slow-down answers (three invocations).
C7_Witness ==
    \E t \in Tasks :
        /\ pc[t] = "done" /\ result[t] = Nil
        /\ limited[t] = 2 /\ calls[t] = 3 /\ succ[t] = 1
        /\ rateMutex # t

\* C8: an error that is no rate-limit signal (another errcode, no HTTP error, a
\* body that is no JSON) ends retry at once: retry returns that same error, the
\* failing invocation is not repeated and not followed by a sleep (one
\* invocation in all when no slow-down answer came before), rateMutex is
\* released, and retry sleeps only after a rate-limit signal.
C8_OtherErrorReturned ==
    \A t \in Tasks :
        /\ (pc[t] = "done" /\ result[t] # Nil) =>
               /\ result[t] = lastErr[t]
               /\ ~IsRateLimitSignal(result[t])
               /\ succ[t] = 0
               /\ calls[t] = limited[t] + 1
               /\ limited[t] = 0 => (calls[t] = 1 /\ slept[t] = 0)
               /\ rateMutex # t
        /\ pc[t] = "sleep" => IsRateLimitSignal(lastErr[t])
        /\ (pc[t] = "call" /\ calls[t] > 0) => IsRateLimitSignal(lastErr[t])

\* C8 witness: retry returned an error after a single invocation, for an HTTP
\* error whose body cannot be parsed and for an error that is no HTTP error.
C8_Witness ==
    \E t, u \in Tasks :
        /\ pc[t] = "done" /\ result[t] # Nil /\ calls[t] = 1 /\ slept[t] = 0
        /\ result[t].http /\ ~result[t].parsable
        /\ pc[u] = "done" /\ ~result[u].http /\ result[u] # Nil /\ calls[u] = 1


(***************************************************************************)
(* The gateway: one envelope is handed to handleMessage once for every    *)
(* bridge of the gateway, and each bridge's adapter Send is called once   *)
(* for every destination channel.                                          *)
(***************************************************************************)

\* the bridges of the gateway, in the order the router visits them
Accounts == <<"matrix.m", "xmpp.x", "mastodon.d", "discord.g">>

\* bridge.New: the protocol is the part of the account name before the dot
Protocol(acc) ==
    CASE acc = "matrix.m" -> "matrix"
      [] acc = "xmpp.x" -> "xmpp"
      [] acc = "mastodon.d" -> "mastodon"
      [] acc = "discord.g" -> "discord"
      [] OTHER -> ""

Chan(acc, name) == [account |-> acc, name |-> name]

NoChan == Chan("", "")

\* the inout lists [A, B, C] the gateway may be constructed with
GatewayConfigs ==
    { <<Chan("matrix.m", "a"), Chan("xmpp.x", "b"), Chan("mastodon.d", "c")>>,
      <<Chan("matrix.m", "a"), Chan("matrix.m", "b"), Chan("xmpp.x", "c")>>,
      <<Chan("matrix.m", "a"), Chan("discord.g", "b"), Chan("xmpp.x", "c")>> }

\* the option sets the accounts may be configured with
CfgChoices ==
    { {<<"matrix.m", "PreserveThreading">>, <<"xmpp.x", "ShowJoinPart">>,
       <<"xmpp.x", "SyncTopic">>, <<"discord.g", "ShowJoinPart">>},
      {<<"xmpp.x", "PreserveThreading">>, <<"mastodon.d", "PreserveThreading">>,
       <<"matrix.m", "ShowJoinPart">>, <<"matrix.m", "ShowTopicChange">>} }

\* Bridge.GetBool: an option that is not configured reads as false
GetBool(acc, key) == <<acc, key>> \in cfg

\* the config package's event names
EventMsgDelete == "msg-delete"
EventUserAction == "user-action"
EventJoinLeave == "join-leave"

EventFailure == "failure"
EventTopicChange == "topic-change"
EventAvatarDownload == "avatar-download"
EventUserTyping == "user-typing"
ParentIDNotFound == "msg-parent-not-found"

\* a faulty capability table: every protocol is said to support typing
UserTypingSupport_AnyProtocol == {"slack", "discord", "matrix", "xmpp", "mastodon"}

\* bridgemap.UserTypingSupport
UserTypingSupport == {"slack", "discord"}

\* the ID of the account the Mastodon bridge is logged in as
MastodonAccountID == "bot"

UserIDs == {"alice", MastodonAccountID}

\* config.Message.ParentValid
ParentValid(msg) == msg.parent # "" /\ msg.parent # ParentIDNotFound

\* one backend call made by an adapter's Send: what it does, the message it
\* targets, whether the backend carried it out
BackendOp(kind, target, done) == [kind |-> kind, target |-> target, done |-> done]

\* what a Send did and returned
SendResult(ops, ret, err) == [ops |-> ops, ret |-> ret, err |-> err]

\* helper.HandleExtra: one text message per file that was too big
HandleExtra(msg, kind) ==
    [i \in 1..msg.failsize |-> BackendOp(kind, "", TRUE)]

HasExtra(msg) == msg.failsize > 0 \/ msg.files > 0

\* Bmatrix.handleUploadFiles: one upload per file, nothing is returned
BmatrixHandleUploadFiles(msg) ==
    [i \in 1..msg.files |-> BackendOp("upload", "", TRUE)]

\* Bmatrix.Send.  The branches are tried in the order of the source: emote,
\* redaction, files, edit, notice, reply, plain text, formatted text.  `ok`
\* says whether the backend accepts the call, `fresh` is the event id the
\* backend gives to a new event.
BmatrixSendBody(msg, ok, fresh, spoof) ==
    IF msg.event = EventUserAction
    THEN SendResult(spoof \o <<BackendOp("m.emote", "", ok)>>,
                    IF ok THEN fresh ELSE "", ~ok)
    ELSE IF msg.event = EventMsgDelete
    THEN IF msg.id = ""
         THEN SendResult(spoof, "", FALSE)
         ELSE SendResult(spoof \o <<BackendOp("redact", msg.id, ok)>>,
                         IF ok THEN fresh ELSE "", ~ok)
    ELSE IF HasExtra(msg) /\ msg.files > 0
    THEN SendResult(spoof \o HandleExtra(msg, "m.text") \o BmatrixHandleUploadFiles(msg),
                    "", FALSE)
    ELSE LET extra == spoof \o HandleExtra(msg, "m.text") IN
    IF msg.id # ""
    THEN SendResult(extra \o <<BackendOp("m.replace", msg.id, ok)>>,
                    IF ok THEN msg.id ELSE "", ~ok)
    ELSE IF msg.event = EventJoinLeave
    THEN SendResult(extra \o <<BackendOp("m.notice", "", ok)>>,
                    IF ok THEN fresh ELSE "", ~ok)
    ELSE IF ParentValid(msg)
    THEN SendResult(extra \o <<BackendOp("m.reply", msg.parent, ok)>>,
                    IF ok THEN fresh ELSE "", ~ok)
    ELSE SendResult(extra \o <<BackendOp("m.text", "", ok)>>,
                    IF ok THEN fresh ELSE "", ~ok)

BmatrixSend(acc, msg, ok, fresh) ==
    BmatrixSendBody(msg, ok, fresh,
                    IF GetBool(acc, "SpoofUsername")
                    THEN <<BackendOp("m.room.member", "", TRUE)>>
                    ELSE <<>>)

\* b.GetString("WebhookURL") != ""
WebhookURLSet(acc) == <<acc, "WebhookURL">> \in cfg

\* Bxmpp.Connected
Connected == xmppConnected

\* Bxmpp.Send: nothing is sent while disconnected, msg-delete is ignored, a
\* message with files is announced by its URL, and a message the server
\* accepted gets a generated dummy id.
BxmppSend(acc, msg, ok, fresh) ==
    IF ~Connected
    THEN SendResult(<<>>, "", TRUE)
    ELSE IF msg.event = EventMsgDelete
    THEN SendResult(<<>>, "", FALSE)
    ELSE IF msg.event = EventAvatarDownload
    THEN SendResult(<<BackendOp("cacheAvatar", "", TRUE)>>, "", FALSE)
    ELSE IF HasExtra(msg) /\ msg.files > 0
    THEN SendResult(HandleExtra(msg, "groupchat")
                      \o [i \in 1..msg.files |-> BackendOp("oob", "", TRUE)],
                    "", FALSE)
    ELSE IF WebhookURLSet(acc)
    THEN SendResult(HandleExtra(msg, "webhook") \o <<BackendOp("webhook", "", ok)>>,
                    "", ~ok)
    ELSE SendResult(HandleExtra(msg, "groupchat") \o <<BackendOp("groupchat", "", ok)>>,
                    IF ok THEN fresh ELSE "", ~ok)

\* Bmastodon.Send: an ordinary message becomes a status (a failure is logged
\* and not returned); a msg-delete deletes the status only when the envelope's
\* user id is the bridge's own account; every other event is ignored.
BmastodonSend(acc, msg, ok, fresh) ==
    IF msg.event = ""
    THEN SendResult(<<BackendOp("status", msg.parent, ok)>>,
                    IF ok THEN fresh ELSE "", FALSE)
    ELSE IF msg.event = EventMsgDelete
    THEN IF msg.userid # MastodonAccountID
         THEN SendResult(<<>>, "", FALSE)
         ELSE SendResult(<<BackendOp("deleteStatus", msg.id, ok)>>, "", ~ok)
    ELSE SendResult(<<>>, "", FALSE)

\* the Send of the Discord bridge: a typing indication or a message
BdiscordSend(acc, msg, ok, fresh) ==
    IF msg.event = EventUserTyping
    THEN SendResult(<<BackendOp("typing", "", ok)>>, "", FALSE)
    ELSE SendResult(<<BackendOp("message", msg.parent, ok)>>,
                    IF ok THEN fresh ELSE "", ~ok)

\* Bridger.Send of the bridge that serves the account
BridgeSend(acc, msg, ok, fresh) ==
    CASE Protocol(acc) = "matrix" -> BmatrixSend(acc, msg, ok, fresh)
      [] Protocol(acc) = "xmpp" -> BxmppSend(acc, msg, ok, fresh)
      [] Protocol(acc) = "mastodon" -> BmastodonSend(acc, msg, ok, fresh)
      [] Protocol(acc) = "discord" -> BdiscordSend(acc, msg, ok, fresh)
      [] OTHER -> SendResult(<<>>, "", TRUE)

\* Gateway.ignoreEvent
\* a faulty event gate: no event is ignored for any destination
ignoreEvent_Never(event, dest) == FALSE

\* Gateway.ignoreEvent: true when the event is not relayed to the bridge dest
ignoreEvent(event, dest) ==
    CASE event = EventAvatarDownload ->
            Protocol(dest) \notin {"mattermost", "telegram", "xmpp"}
      [] event = EventJoinLeave -> ~GetBool(dest, "ShowJoinPart")
      [] event = EventTopicChange ->
            ~GetBool(dest, "ShowTopicChange") /\ ~GetBool(dest, "SyncTopic")
      [] OTHER -> FALSE

\* a faulty channel check: the envelopes that have a channel are dropped
emptyChannelDropped_Inverted(rmsg) == rmsg.channel # ""

\* a faulty channel check: join-leave envelopes without a channel are dropped too
emptyChannelDropped_Always(rmsg) == rmsg.channel = ""

\* handleMessage's check of the envelope's channel
emptyChannelDropped(rmsg) == rmsg.channel = "" /\ rmsg.event # EventJoinLeave

\* the early returns of Gateway.handleMessage: true when nothing is sent to
\* the bridge dest
handleMessageSkips(rmsg, dest) ==
    \/ rmsg.event = EventUserTyping /\ Protocol(dest) \notin UserTypingSupport
    \/ rmsg.failsize > 0 /\ rmsg.text = ""
    \/ ignoreEvent(rmsg.event, dest)
    \/ emptyChannelDropped(rmsg)

\* a faulty condition: the parent is looked up whatever the destination says
threadingWanted_Always(rmsg, dest) == rmsg.parent # ""

\* handleMessage's condition for looking up the parent message
threadingWanted(rmsg, dest) == rmsg.parent # "" /\ GetBool(dest, "PreserveThreading")

\* the correlation table's key "<protocol> <message-id>"
Key(protocol, id) == <<protocol, id>>

NoKey == Key("", "")

\* the answer of a lookup that finds nothing
NotFound == Key("", ParentIDNotFound)

\* Gateway.FindCanonicalMsgID: the key of the message itself when the table
\* has it, else the key of the message one of whose copies has this id
FindCanonicalMsgID(protocol, id) ==
    IF Key(protocol, id) \in DOMAIN table
    THEN Key(protocol, id)
    ELSE IF \E k \in DOMAIN table : \E e \in table[k] : e.id = Key(protocol, id)
    THEN CHOOSE k \in DOMAIN table : \E e \in table[k] : e.id = Key(protocol, id)
    ELSE NotFound

\* Gateway.getDestMsgID: the destination's own id of the message with this key
getDestMsgID(key, dest, channel) ==
    IF key \in DOMAIN table
         /\ \E e \in table[key] : e.br = dest /\ e.channel = channel
    THEN (CHOOSE e \in table[key] : e.br = dest /\ e.channel = channel).id[2]
    ELSE ""

\* the destination's native id of the parent: its copy of the parent, or the
\* parent itself when the parent was written on the destination's protocol
nativeParentID(canonical, dest, channel) ==
    IF canonical = NoKey THEN ""
    ELSE IF canonical = NotFound THEN ParentIDNotFound
    ELSE IF getDestMsgID(canonical, dest, channel) # ""
    THEN getDestMsgID(canonical, dest, channel)
    ELSE IF canonical[1] = Protocol(dest) THEN canonical[2]
    ELSE ParentIDNotFound

\* Gateway.getDestChannel: the channels of the bridge dest the envelope is
\* delivered to, the origin pair left out
getDestChannel(rmsg, dest) ==
    IF \E i \in 1..Len(gwInOut) :
          /\ gwInOut[i].account = rmsg.account
          /\ (gwInOut[i].name = rmsg.channel \/ rmsg.channel = "")
    THEN SelectSeq(gwInOut,
                   LAMBDA c : c.account = dest
                              /\ c # Chan(rmsg.account, rmsg.channel))
    ELSE <<>>

\* the id the destination backend gives to envelope n's copy in a channel
FreshID(n, channel) == "d" \o ToString(n) \o channel.name

\* Gateway.SendMessage: the envelope is rewritten for the destination (its
\* channel, the destination's id of the message, the destination's id of the
\* parent) and handed to the bridge's Send
SendMessage(rmsg, dest, channel, canonicalParentMsgID, n, failChan) ==
    LET msg == [rmsg EXCEPT
                  !.channel = channel.name,
                  !.id = getDestMsgID(Key(rmsg.protocol, rmsg.id), dest, channel),
                  !.parent = nativeParentID(canonicalParentMsgID, dest, channel)]
        r == BridgeSend(dest, msg, channel # failChan, FreshID(n, channel))
    IN  [n |-> n, dest |-> dest, channel |-> channel, msg |-> msg,
         lookup |-> canonicalParentMsgID # NoKey,
         ops |-> r.ops, ret |-> r.ret, err |-> r.err]

\* the Sends of a list up to and including the first one that failed
RECURSIVE UpToFirstError(_)
UpToFirstError(sends) ==
    IF sends = <<>> THEN <<>>
    ELSE IF Head(sends).err THEN <<Head(sends)>>
    ELSE <<Head(sends)>> \o UpToFirstError(Tail(sends))

\* Gateway.handleMessage
\* a faulty loop: the first failed Send ends it (return in place of continue)
handleMessage_StopAtFailure(rmsg, dest, n, failChan) ==
    IF handleMessageSkips(rmsg, dest) THEN <<>>
    ELSE LET canonicalParentMsgID ==
                 IF threadingWanted(rmsg, dest)
                 THEN FindCanonicalMsgID(rmsg.protocol, rmsg.parent)
                 ELSE NoKey
             channels == getDestChannel(rmsg, dest)
         IN  UpToFirstError([i \in 1..Len(channels) |->
                SendMessage(rmsg, dest, channels[i], canonicalParentMsgID, n, failChan)])

\* Gateway.handleMessage for envelope number n: the Sends made to the bridge
\* dest, one per destination channel, in order.  failChan is the channel
\* whose backend refuses the call.
handleMessage(rmsg, dest, n, failChan) ==
    IF handleMessageSkips(rmsg, dest) THEN <<>>
    ELSE LET canonicalParentMsgID ==
                 IF threadingWanted(rmsg, dest)
                 THEN FindCanonicalMsgID(rmsg.protocol, rmsg.parent)
                 ELSE NoKey
             channels == getDestChannel(rmsg, dest)
         IN  [i \in 1..Len(channels) |->
                SendMessage(rmsg, dest, channels[i], canonicalParentMsgID, n, failChan)]

\* the tuples handleMessage returns
\* a faulty loop: a Send that returned no id still gets its tuple
brMsgIDs_EmptyIDKept(sends) ==
    { [br |-> sends[i].dest, channel |-> sends[i].channel,
       id |-> Key(Protocol(sends[i].dest), sends[i].ret)] :
      i \in {j \in 1..Len(sends) : ~sends[j].err} }

\* the tuples handleMessage returns: one for every Send that returned an id
brMsgIDs(sends) ==
    { [br |-> sends[i].dest, channel |-> sends[i].channel,
       id |-> Key(Protocol(sends[i].dest), sends[i].ret)] :
      i \in {j \in 1..Len(sends) : ~sends[j].err /\ sends[j].ret # ""} }

\* the router's loop over the gateway's bridges: dest i's Sends follow those
\* of the bridges before it
dispatch(rmsg, n, failChan) ==
    handleMessage(rmsg, Accounts[1], n, failChan)
      \o handleMessage(rmsg, Accounts[2], n, failChan)
      \o handleMessage(rmsg, Accounts[3], n, failChan)
      \o handleMessage(rmsg, Accounts[4], n, failChan)

\* the envelope an adapter publishes
Envelope(c, event, text, id, parent, userid, files, failsize) ==
    [account |-> c.account, channel |-> c.name, protocol |-> Protocol(c.account),
     event |-> event, text |-> text, id |-> id, parent |-> parent,
     userid |-> userid, files |-> files, failsize |-> failsize]

\* the ids of the messages written in channel c
OwnIDs(c) ==
    { envLog[i].id : i \in { j \in 1..Len(envLog) :
                             /\ envLog[j].account = c.account
                             /\ envLog[j].channel = c.name
                             /\ envLog[j].id # "" } }

\* the ids of the copies the gateway has made in channel c
RelayedIDs(c) ==
    { sendLog[i].ret : i \in { j \in 1..Len(sendLog) :
                               /\ sendLog[j].channel = c
                               /\ sendLog[j].msg.event # EventMsgDelete
                               /\ sendLog[j].ret # "" } }

\* a new message: ordinary, /me, with a file, or a reply to a message of the
\* channel
NewEnvelopes(c, n) ==
    { Envelope(c, "", "text", "m" \o ToString(n), parent, "alice", 0, 0) :
        parent \in {""} \cup OwnIDs(c) \cup RelayedIDs(c) }
    \cup { Envelope(c, EventUserAction, "text", "m" \o ToString(n), "", "alice", 0, 0),
           Envelope(c, "", "text", "m" \o ToString(n), "", "alice", 1, 0) }

\* the new message a destination backend may refuse
PlainEnvelope(c, n) == Envelope(c, "", "text", "m" \o ToString(n), "", "alice", 0, 0)

\* an edit of a message of the channel
EditEnvelopes(c) ==
    { Envelope(c, ev, "text", id, "", "alice", 0, 0) :
        ev \in {"", EventUserAction}, id \in OwnIDs(c) }

\* the deletion of a message of the channel
DeleteEnvelopes(c) ==
    { Envelope(c, EventMsgDelete, EventMsgDelete, id, "", userid, 0, 0) :
        id \in OwnIDs(c), userid \in UserIDs }

\* envelopes that are not messages: events, and a file that was too big
EventEnvelopes(c) ==
    { Envelope(c, EventJoinLeave, "joined", "", "", "alice", 0, 0),
      Envelope(c, EventUserTyping, "", "", "", "alice", 0, 0),
      Envelope(c, EventTopicChange, "topic", "", "", "alice", 0, 0),
      Envelope(c, EventAvatarDownload, "", "", "", "alice", 1, 0),
      Envelope(c, "", "", "", "", "alice", 0, 1),
      Envelope(Chan(c.account, ""), "", "text", "", "", "alice", 0, 0),
      Envelope(Chan(c.account, ""), EventJoinLeave, "quit", "", "", "alice", 0, 0),
      Envelope(Chan(c.account, ""), EventUserTyping, "", "", "", "alice", 0, 0) }

ChannelSet == {gwInOut[i] : i \in 1..Len(gwInOut)}

\* the router receives an envelope from the ingress channel and handles it
GwReceive(c, rmsg, failChan) ==
    /\ Len(envLog) < MaxMsgs
    /\ LET n == Len(envLog) + 1
           sends == dispatch(rmsg, n, failChan)
       IN  /\ failChan # NoChan =>
                /\ failsLeft > 0
                /\ \E i \in 1..Len(sends) : sends[i].channel = failChan
           /\ sendLog' = sendLog \o sends
           /\ table' = IF rmsg.id # "" /\ Key(rmsg.protocol, rmsg.id) \notin DOMAIN table
                       THEN (Key(rmsg.protocol, rmsg.id) :> brMsgIDs(sends)) @@ table
                       ELSE table
           /\ envLog' = Append(envLog, rmsg)
           /\ failsLeft' = IF failChan = NoChan THEN failsLeft ELSE failsLeft - 1
    /\ UNCHANGED <<gwInOut, cfg, xmppConnected>>

RetryIdle ==
    /\ rateMutex = NoTask
    /\ pc = [t \in Tasks |-> "idle"]
    /\ op = [t \in Tasks |-> "Send"]
    /\ calls = [t \in Tasks |-> 0]
    /\ succ = [t \in Tasks |-> 0]
    /\ limited = [t \in Tasks |-> 0]
    /\ backoff = [t \in Tasks |-> 0]
    /\ slept = [t \in Tasks |-> 0]
    /\ lastErr = [t \in Tasks |-> Nil]
    /\ result = [t \in Tasks |-> Nil]
    /\ RoomMap = {}
    /\ opsLeft = 0

GwInit ==
    /\ ExtIdle
    /\ RetryIdle
    /\ RelayIdle
    /\ gwInOut \in GatewayConfigs
    /\ cfg \in CfgChoices
    /\ xmppConnected = TRUE
    /\ table = <<>>
    /\ envLog = <<>>
    /\ sendLog = <<>>
    /\ failsLeft = MaxFails

GwNext ==
    \E c \in ChannelSet :
        \/ \E rmsg \in NewEnvelopes(c, Len(envLog) + 1) \cup EditEnvelopes(c)
                         \cup DeleteEnvelopes(c) \cup EventEnvelopes(c) :
             GwReceive(c, rmsg, NoChan)
        \/ \E failChan \in ChannelSet :
             GwReceive(c, PlainEnvelope(c, Len(envLog) + 1), failChan)

SpecGateway == GwInit /\ [][GwNext /\ UNCHANGED <<retryVars, relayVars, extVars>>]_vars

\* the Sends made for envelope n into channel c
SendsTo(n, c) == {i \in 1..Len(sendLog) : sendLog[i].n = n /\ sendLog[i].channel = c}

Origin(rmsg) == Chan(rmsg.account, rmsg.channel)

Ordinary(rmsg) == rmsg.event = "" /\ rmsg.text # "" /\ rmsg.channel # ""

\* C1: with inout = [A, B, C], every ordinary message (empty event, non-empty
\* text and channel) that originates at one of the three pairs is sent
\* exactly once to each of the two other pairs and never to its own pair.
C1_FanOutOncePerPeer ==
    \A n \in 1..Len(envLog) :
        (Ordinary(envLog[n]) /\ Origin(envLog[n]) \in ChannelSet) =>
            \A c \in ChannelSet :
                Cardinality(SendsTo(n, c)) = IF c = Origin(envLog[n]) THEN 0 ELSE 1

\* C1 witness: an ordinary message of A has been dispatched in the gateway
\* whose B is another channel of A's own account, and B and C each got a Send.
C1_Witness ==
    /\ gwInOut[1].account = gwInOut[2].account
    /\ \E n \in 1..Len(envLog) :
         /\ Ordinary(envLog[n])
         /\ Origin(envLog[n]) = gwInOut[1]
         /\ Cardinality(SendsTo(n, gwInOut[2])) = 1
         /\ Cardinality(SendsTo(n, gwInOut[3])) = 1
         /\ SendsTo(n, gwInOut[1]) = {}

\* the envelope that put the key k into the table: the first one with that id
EnvelopeOfKey(k) ==
    CHOOSE n \in 1..Len(envLog) :
        /\ Key(envLog[n].protocol, envLog[n].id) = k
        /\ \A m \in 1..(n - 1) : Key(envLog[m].protocol, envLog[m].id) # k

\* the Sends made for envelope n
SendsOf(n) == {i \in 1..Len(sendLog) : sendLog[i].n = n}

\* the correlation tuple the claim gives to the Send i: destination adapter,
\* destination protocol with the message id, destination channel
CorrelationTuple(i) ==
    [br |-> sendLog[i].dest, channel |-> sendLog[i].channel,
     id |-> Key(Protocol(sendLog[i].dest), sendLog[i].ret)]

\* C22: handleMessage returns a correlation tuple (destination adapter,
\* destination protocol and message id, destination channel) for exactly the
\* destination channels whose Send returned no error and a non-empty id; a
\* failed Send and a Send with an empty id contribute no tuple.
C22_TuplesOfSuccessfulSends ==
    \A k \in DOMAIN table :
        table[k] = { CorrelationTuple(i) :
                       i \in { j \in SendsOf(EnvelopeOfKey(k)) :
                                 ~sendLog[j].err /\ sendLog[j].ret # "" } }

\* C22 witness: the table holds the tuples of an envelope one Send of which
\* returned an id and another (a file announced on XMPP) returned none.
C22_Witness ==
    \E k \in DOMAIN table :
        /\ \E i \in SendsOf(EnvelopeOfKey(k)) :
              /\ ~sendLog[i].err /\ sendLog[i].ret = ""
              /\ CorrelationTuple(i) \notin table[k]
        /\ \E i \in SendsOf(EnvelopeOfKey(k)) :
              /\ ~sendLog[i].err /\ sendLog[i].ret # ""
              /\ CorrelationTuple(i) \in table[k]

\* the destination channels handleMessage loops over for the envelope rmsg
DestChannelsOf(rmsg) ==
    { c \in ChannelSet :
        /\ ~handleMessageSkips(rmsg, c.account)
        /\ \E i \in 1..Len(getDestChannel(rmsg, c.account)) :
              getDestChannel(rmsg, c.account)[i] = c }

\* C23: when the Send to one destination channel fails, the Sends to the
\* remaining destination channels are still made, and the tuples of the
\* channels that succeeded are still returned.
C23_FailureDoesNotStopTheLoop ==
    \A n \in 1..Len(envLog) :
        (\E i \in SendsOf(n) : sendLog[i].err) =>
            /\ \A c \in DestChannelsOf(envLog[n]) : Cardinality(SendsTo(n, c)) = 1
            /\ \A i \in SendsOf(n) :
                  (/\ ~sendLog[i].err /\ sendLog[i].ret # ""
                   /\ envLog[n].id # ""
                   /\ EnvelopeOfKey(Key(envLog[n].protocol, envLog[n].id)) = n)
                  => CorrelationTuple(i) \in table[Key(envLog[n].protocol, envLog[n].id)]

\* C23 witness: one bridge serves two destination channels, the Send to the
\* first failed, the Send to the second was made after it and its tuple is in
\* the table.
C23_Witness ==
    \E i, j \in 1..Len(sendLog) :
        /\ i < j
        /\ sendLog[i].n = sendLog[j].n
        /\ sendLog[i].dest = sendLog[j].dest
        /\ sendLog[i].err
        /\ ~sendLog[j].err /\ sendLog[j].ret # ""
        /\ CorrelationTuple(j) \in table[Key(envLog[sendLog[j].n].protocol,
                                               envLog[sendLog[j].n].id)]

\* the Sends that carry an edit to a Matrix destination: the envelope has the
\* destination's id of the message, no files, and the backend accepts the call
MatrixEdits ==
    {i \in 1..Len(sendLog) :
        /\ Protocol(sendLog[i].dest) = "matrix"
        /\ sendLog[i].msg.event # EventMsgDelete
        /\ sendLog[i].msg.id # ""
        /\ sendLog[i].msg.files = 0
        /\ ~sendLog[i].err}

\* C3: an edit that reaches a Matrix destination's Send with id = b1 and no
\* files makes exactly one m.replace event targeting b1, makes no new
\* message, and Send returns b1, whatever the event type of the edited
\* message (user-action included).
C3_EditBecomesReplace ==
    \A i \in MatrixEdits :
        /\ sendLog[i].ops = <<BackendOp("m.replace", sendLog[i].msg.id, TRUE)>>
        /\ sendLog[i].ret = sendLog[i].msg.id

\* C3, the case that diverges: the edit of a user-action message reached
\* Matrix with the id of the delivered copy, and Send posted a new emote
\* and returned a new id.
C3_Witness ==
    \E i \in MatrixEdits :
        /\ sendLog[i].msg.event = EventUserAction
        /\ sendLog[i].msg.id \in RelayedIDs(sendLog[i].channel)
        /\ sendLog[i].ops = <<BackendOp("m.emote", "", TRUE)>>
        /\ sendLog[i].ret # sendLog[i].msg.id

\* the Sends that carry the deletion of a delivered message to a destination
Deletions ==
    {i \in 1..Len(sendLog) :
        /\ sendLog[i].msg.event = EventMsgDelete
        /\ sendLog[i].msg.id # ""
        /\ ~sendLog[i].err}

\* the Send removed the message with this id from the backend
Removes(send, id) ==
    \E k \in 1..Len(send.ops) :
        /\ send.ops[k].kind \in {"redact", "deleteStatus"}
        /\ send.ops[k].target = id
        /\ send.ops[k].done

\* C4: after m was delivered to B with id b1, a msg-delete of m reaches B's
\* adapter as an envelope with event msg-delete and id b1, and the adapter
\* removes b1 from the backend, for B an XMPP, Matrix or Mastodon adapter.
C4_DeleteRemovesCopy ==
    /\ \A n \in 1..Len(envLog) : \A c \in ChannelSet :
         (envLog[n].event = EventMsgDelete
            /\ getDestMsgID(Key(envLog[n].protocol, envLog[n].id), c.account, c) # "") =>
                \E i \in SendsTo(n, c) :
                    /\ sendLog[i].msg.event = EventMsgDelete
                    /\ sendLog[i].msg.id =
                         getDestMsgID(Key(envLog[n].protocol, envLog[n].id), c.account, c)
    /\ \A i \in Deletions : Removes(sendLog[i], sendLog[i].msg.id)

\* C4, the case that diverges: the XMPP adapter was handed the msg-delete of
\* a copy it had sent, made no backend call and reported success.
C4_Witness ==
    \E i \in Deletions :
        /\ Protocol(sendLog[i].dest) = "xmpp"
        /\ sendLog[i].msg.id \in RelayedIDs(sendLog[i].channel)
        /\ sendLog[i].ops = <<>>
        /\ sendLog[i].ret = ""

\* the envelope that first announced the message with this id
FirstEnvelope(protocol, id) ==
    CHOOSE j \in 1..Len(envLog) :
        /\ envLog[j].protocol = protocol /\ envLog[j].id = id
        /\ \A k \in 1..(j - 1) : ~(envLog[k].protocol = protocol /\ envLog[k].id = id)

\* the messages (by the number of their first envelope) that the parent id of
\* envelope n names: a message written in n's own channel, or the message
\* whose copy in n's channel has that id
ParentsOf(n) ==
    { j \in 1..(n - 1) :
        /\ envLog[j].id # ""
        /\ j = FirstEnvelope(envLog[j].protocol, envLog[j].id)
        /\ \/ /\ Origin(envLog[j]) = Origin(envLog[n])
              /\ envLog[j].id = envLog[n].parent
           \/ \E i \in SendsTo(j, Origin(envLog[n])) :
                 ~sendLog[i].err /\ sendLog[i].ret = envLog[n].parent }

\* channel c's own ids of message j: its id where it was written, the id its
\* copy got elsewhere
OwnIDOf(j, c) ==
    IF Origin(envLog[j]) = c THEN {envLog[j].id}
    ELSE { sendLog[i].ret : i \in {k \in SendsTo(j, c) :
                                     ~sendLog[k].err /\ sendLog[k].ret # ""} }

Gated(rmsg) == rmsg.channel # "" /\ ~(rmsg.failsize > 0 /\ rmsg.text = "")

\* the channels of the gateway that belong to another account than the envelope
OtherAccountChannels(rmsg) == {c \in ChannelSet : c.account # rmsg.account}

\* C11: a user-typing envelope is sent to a destination exactly when the
\* destination's protocol is slack or discord: no Send at all is made for it
\* to a destination of another protocol, and a destination channel of a
\* typing-capable protocol gets one Send.
C11_TypingOnlyToCapable ==
    \A n \in 1..Len(envLog) :
        envLog[n].event = EventUserTyping =>
            \A c \in ChannelSet \ {Origin(envLog[n])} :
                /\ Protocol(c.account) \notin {"slack", "discord"} => SendsTo(n, c) = {}
                /\ (Protocol(c.account) \in {"slack", "discord"} /\ Gated(envLog[n]))
                      => Cardinality(SendsTo(n, c)) = 1

\* C11 witness: one typing envelope of the Matrix channel got a Send to the
\* Discord channel and none to the XMPP channel of the same gateway.
C11_Witness ==
    \E n \in 1..Len(envLog) :
        /\ envLog[n].event = EventUserTyping
        /\ Origin(envLog[n]) = gwInOut[1]
        /\ Protocol(gwInOut[2].account) = "discord"
        /\ Protocol(gwInOut[3].account) = "xmpp"
        /\ Cardinality(SendsTo(n, gwInOut[2])) = 1
        /\ SendsTo(n, gwInOut[3]) = {}

\* what the event gate lets through, written from the claim: avatar
\* downloads to mattermost, telegram and xmpp, join-leave with ShowJoinPart,
\* topic changes with ShowTopicChange or SyncTopic, everything else always
PassesEventGate(event, acc) ==
    CASE event = "avatar-download" -> Protocol(acc) \in {"mattermost", "telegram", "xmpp"}
      [] event = "join-leave" -> <<acc, "ShowJoinPart">> \in cfg
      [] event = "topic-change" ->
            <<acc, "ShowTopicChange">> \in cfg \/ <<acc, "SyncTopic">> \in cfg
      [] OTHER -> TRUE

C13_EmptyChannel ==
    \A n \in 1..Len(envLog) :
        envLog[n].channel = "" =>
            IF envLog[n].event # EventJoinLeave
            THEN \A i \in 1..Len(sendLog) : sendLog[i].n # n
            ELSE \A c \in OtherAccountChannels(envLog[n]) :
                    Cardinality(SendsTo(n, c)) =
                        IF <<c.account, "ShowJoinPart">> \in cfg THEN 1 ELSE 0

\* C13 witness: a join-leave envelope without a channel was broadcast to a
\* channel of a bridge with ShowJoinPart, and a message without a channel
\* was dispatched with no Send at all.
C13_Witness ==
    /\ \E n \in 1..Len(envLog) :
         /\ envLog[n].channel = "" /\ envLog[n].event = EventJoinLeave
         /\ \E c \in OtherAccountChannels(envLog[n]) : Cardinality(SendsTo(n, c)) = 1
         /\ \E c \in OtherAccountChannels(envLog[n]) : SendsTo(n, c) = {}
    /\ \E n \in 1..Len(envLog) :
         /\ envLog[n].channel = "" /\ envLog[n].event = ""
         /\ \A i \in 1..Len(sendLog) : sendLog[i].n # n

(***************************************************************************)
(* The running relay: the adapters' reader tasks and background download  *)
(* tasks publish to the ingress channel, the router task takes one        *)
(* envelope at a time and calls the destinations' Send itself, and the    *)
(* XMPP bridge's manageConnection task reconnects after a lost connection.*)
(***************************************************************************)

\* the gateway the relay runs: a Matrix room and two rooms of one XMPP account
RelayInOut == <<Chan("matrix.m", "a"), Chan("xmpp.x", "b"), Chan("xmpp.x", "c")>>

\* Bridge.Channels of the XMPP bridge
XmppRooms == {"b", "c"}

EventRejoinChannels == "rejoin-channels"

\* the goroutine that runs Router.handleReceive
RouterTask == 1

\* the envelope an adapter's reader builds from backend event number seq
RelayMsg(c, event, seq, file) ==
    [account |-> c.account, channel |-> c.name, event |-> event, seq |-> seq,
     file |-> file]

\* b.Remote <- rmsg: the send blocks while the channel is full
Publish(msg) ==
    /\ Len(ingress) < MaxIngress
    /\ ingress' = Append(ingress, msg)

\* Bmatrix.handleMessageEvent: a message with an attachment is handed to a
\* background task (handleAttachment), any other message is published
BmatrixHandleMessageEvent(c, file) ==
    /\ Protocol(c.account) = "matrix"
    /\ produced < MaxEvents
    /\ produced' = produced + 1
    /\ IF file = 1
       THEN /\ downloads' = downloads \cup {RelayMsg(c, "", produced + 1, 1)}
            /\ UNCHANGED ingress
       ELSE /\ Publish(RelayMsg(c, "", produced + 1, 0))
            /\ UNCHANGED downloads
    /\ UNCHANGED <<routerPc, current, todo, callsLeft, relayLog, joined, connPc,
                   connFails, refused, reconnects, rejoinsDone, dropsLeft>>
    /\ UNCHANGED <<retryVars, gwVars>>

\* Bxmpp.handleXMPP, a groupchat message: one with an OOB URL is handed to a
\* background task (handleDownloadFile), any other message is published
BxmppHandleChat(c, file) ==
    /\ Protocol(c.account) = "xmpp"
    /\ connPc = "handle"
    /\ produced < MaxEvents
    /\ produced' = produced + 1
    /\ IF file = 1
       THEN /\ downloads' = downloads \cup {RelayMsg(c, "", produced + 1, 1)}
            /\ UNCHANGED ingress
       ELSE /\ Publish(RelayMsg(c, "", produced + 1, 0))
            /\ UNCHANGED downloads
    /\ UNCHANGED <<routerPc, current, todo, callsLeft, relayLog, joined, connPc,
                   connFails, refused, reconnects, rejoinsDone, dropsLeft>>
    /\ UNCHANGED <<retryVars, gwVars>>

\* the background task finishes: the envelope is published, or, when the
\* download failed, logged and dropped
DownloadDone(msg, ok) ==
    /\ msg \in downloads
    /\ downloads' = downloads \ {msg}
    /\ IF ok THEN Publish(msg) ELSE UNCHANGED ingress
    /\ UNCHANGED <<produced, routerPc, current, todo, callsLeft, relayLog, joined,
                   connPc, connFails, refused, reconnects, rejoinsDone, dropsLeft>>
    /\ UNCHANGED <<retryVars, gwVars>>

\* handleXMPP returns an error: the connection is lost (setConnected(false))
\* and manageConnection enters its reconnect loop
handleXMPPError ==
    /\ connPc = "handle"
    /\ dropsLeft > 0
    /\ dropsLeft' = dropsLeft - 1
    /\ xmppConnected' = FALSE
    /\ connPc' = "reconnect"
    /\ UNCHANGED <<ingress, produced, downloads, routerPc, current, todo, callsLeft,
                   relayLog, joined, connFails, refused, reconnects, rejoinsDone>>
    /\ UNCHANGED <<retryVars, gwConfig>>

\* the reconnect loop: after the back-off sleep createXMPP fails, or it
\* succeeds (setConnected(true), bf.Reset()) and the loop is left
createXMPP(ok) ==
    /\ connPc = "reconnect"
    /\ IF ok
       THEN /\ xmppConnected' = TRUE
            /\ refused' = connFails
            /\ connFails' = 0
            /\ reconnects' = reconnects + 1
            /\ connPc' = "rejoin"
       ELSE /\ connFails < MaxRefusals
            /\ connFails' = connFails + 1
            /\ UNCHANGED <<xmppConnected, refused, reconnects, connPc>>
    /\ UNCHANGED <<ingress, produced, downloads, routerPc, current, todo, callsLeft,
                   relayLog, joined, rejoinsDone, dropsLeft>>
    /\ UNCHANGED <<retryVars, gwConfig>>

\* Bxmpp.manageConnection
\* a faulty loop top: initial is never cleared, so nothing is published
publishRejoin_InitialKept ==
    /\ connPc = "rejoin"
    /\ connPc' = "handle"
    /\ UNCHANGED <<ingress, produced, downloads, routerPc, current, todo, callsLeft,
                   relayLog, joined, connFails, refused, reconnects, rejoinsDone,
                   dropsLeft>>
    /\ UNCHANGED <<retryVars, gwVars>>

\* the top of manageConnection's loop after a reconnect: the rejoin-channels
\* event is published, then handleXMPP runs again
publishRejoin ==
    /\ connPc = "rejoin"
    /\ Publish(RelayMsg(Chan("xmpp.x", ""), EventRejoinChannels, 0, 0))
    /\ connPc' = "handle"
    /\ UNCHANGED <<produced, downloads, routerPc, current, todo, callsLeft, relayLog,
                   joined, connFails, refused, reconnects, rejoinsDone, dropsLeft>>
    /\ UNCHANGED <<retryVars, gwVars>>

\* the destination channels of an envelope, bridge by bridge
routerDests(msg) ==
    getDestChannel(msg, Accounts[1]) \o getDestChannel(msg, Accounts[2])
      \o getDestChannel(msg, Accounts[3]) \o getDestChannel(msg, Accounts[4])

\* the router's position after the Send to the head of todo
afterSend == IF Tail(todo) = <<>> THEN "idle" ELSE "send"

\* the router task takes the next envelope.  A rejoin-channels event clears
\* the bridge's joined set and the router starts JoinChannels; any other
\* envelope is dispatched to its destination channels.
RouterReceive ==
    /\ routerPc = "idle"
    /\ ingress # <<>>
    /\ ingress' = Tail(ingress)
    /\ IF Head(ingress).event = EventRejoinChannels
       THEN /\ joined' = {}
            /\ todo' = <<>>
            /\ current' = Head(ingress)
            /\ routerPc' = "join"
       ELSE /\ todo' = routerDests(Head(ingress))
            /\ current' = IF routerDests(Head(ingress)) = <<>> THEN NoMsg
                          ELSE Head(ingress)
            /\ routerPc' = IF routerDests(Head(ingress)) = <<>> THEN "idle" ELSE "send"
            /\ UNCHANGED joined
    /\ UNCHANGED <<produced, downloads, callsLeft, relayLog, connPc, connFails,
                   refused, reconnects, rejoinsDone, dropsLeft>>
    /\ UNCHANGED <<retryVars, gwVars>>

\* a faulty joinChannels: every room counts as joined already
roomsToJoin_None(exists) == {}

\* Bridge.joinChannels: the channels that are not yet in the joined set
roomsToJoin(exists) == XmppRooms \ exists

\* joinChannels, one room: the JoinDelay sleep, JoinChannel (which returns
\* nil whatever the server says), the room is marked joined
RouterJoin(room) ==
    /\ routerPc = "join"
    /\ room \in roomsToJoin(joined)
    /\ joined' = joined \cup {room}
    /\ UNCHANGED <<ingress, produced, downloads, routerPc, current, todo, callsLeft,
                   relayLog, connPc, connFails, refused, reconnects, rejoinsDone,
                   dropsLeft>>
    /\ UNCHANGED <<retryVars, gwVars>>

\* JoinChannels returns: the router goes back to the ingress channel
RouterJoinDone ==
    /\ routerPc = "join"
    /\ roomsToJoin(joined) = {}
    /\ routerPc' = "idle"
    /\ current' = NoMsg
    /\ rejoinsDone' = rejoinsDone + 1
    /\ UNCHANGED <<ingress, produced, downloads, todo, callsLeft, relayLog, joined,
                   connPc, connFails, refused, reconnects, dropsLeft>>
    /\ UNCHANGED <<retryVars, gwVars>>

\* the record of one Send for the envelope the router holds
SendRecord(dest) ==
    [dest |-> dest, origin |-> Chan(current.account, current.channel),
     seq |-> current.seq]

\* handleMessage calls SendMessage for the next channel, an XMPP one: the
\* Send is one call to the server, or an error while disconnected
RouterSendXmpp ==
    /\ routerPc = "send"
    /\ Protocol(Head(todo).account) = "xmpp"
    /\ relayLog' = Append(relayLog, SendRecord(Head(todo)))
    /\ todo' = Tail(todo)
    /\ routerPc' = afterSend
    /\ current' = IF Tail(todo) = <<>> THEN NoMsg ELSE current
    /\ UNCHANGED <<ingress, produced, downloads, callsLeft, joined, connPc,
                   connFails, refused, reconnects, rejoinsDone, dropsLeft>>
    /\ UNCHANGED <<retryVars, gwVars>>

\* the retry-wrapped calls Bmatrix.Send makes: one for a message, three for a
\* message with a file (comment, upload, file event)
matrixCalls(msg) == IF msg.file = 1 THEN 3 ELSE 1

\* handleMessage calls SendMessage for the next channel, a Matrix one
RouterSendMatrix ==
    /\ routerPc = "send"
    /\ Protocol(Head(todo).account) = "matrix"
    /\ relayLog' = Append(relayLog, SendRecord(Head(todo)))
    /\ callsLeft' = matrixCalls(current)
    /\ routerPc' = "call"
    /\ UNCHANGED <<ingress, produced, downloads, current, todo, joined, connPc,
                   connFails, refused, reconnects, rejoinsDone, dropsLeft>>
    /\ UNCHANGED <<retryVars, gwVars>>

\* Bmatrix.Send, on the router task, enters retry for its next backend call
RouterCall ==
    /\ routerPc = "call"
    /\ retryEnter(RouterTask, "Send")
    /\ routerPc' = "retry"
    /\ UNCHANGED <<ingress, produced, downloads, current, todo, callsLeft, relayLog,
                   joined, connPc, connFails, refused, reconnects, rejoinsDone,
                   dropsLeft, opsLeft>>
    /\ UNCHANGED gwVars

\* the router task inside retry: lock, invoke, sleep on a rate limit, wake
RouterRetryStep ==
    /\ routerPc = "retry"
    /\ \/ retryLock(RouterTask)
       \/ retryInvoke(RouterTask)
       \/ retryReturnNil(RouterTask)
       \/ \E err \in BackendErrors : retryError(RouterTask, err)
       \/ retryWake(RouterTask)
    /\ UNCHANGED <<relayVars, gwVars>>

\* retry has returned: Send makes its next call, or returns to handleMessage
\* (a failed upload ends handleUploadFile early)
RouterRetryReturn ==
    /\ routerPc = "retry"
    /\ retryLeave(RouterTask)
    /\ LET left == IF callsLeft = 2 /\ result[RouterTask] # Nil THEN 0
                   ELSE callsLeft - 1
       IN  /\ callsLeft' = left
           /\ IF left > 0
              THEN /\ routerPc' = "call"
                   /\ UNCHANGED <<todo, current>>
              ELSE /\ routerPc' = afterSend
                   /\ todo' = Tail(todo)
                   /\ current' = IF Tail(todo) = <<>> THEN NoMsg ELSE current
    /\ UNCHANGED <<ingress, produced, downloads, relayLog, joined, connPc, connFails,
                   refused, reconnects, rejoinsDone, dropsLeft>>
    /\ UNCHANGED gwVars

RelayInit ==
    /\ ExtIdle
    /\ RetryIdle
    /\ gwInOut = RelayInOut
    /\ cfg = {}
    /\ xmppConnected = TRUE
    /\ table = <<>>
    /\ envLog = <<>>
    /\ sendLog = <<>>
    /\ failsLeft = 0
    /\ ingress = <<>>
    /\ produced = 0
    /\ downloads = {}
    /\ routerPc = "idle"
    /\ current = NoMsg
    /\ todo = <<>>
    /\ callsLeft = 0
    /\ relayLog = <<>>
    /\ joined = XmppRooms
    /\ connPc = "handle"
    /\ connFails = 0
    /\ refused = 0
    /\ reconnects = 0
    /\ rejoinsDone = 0
    /\ dropsLeft = MaxDrops

\* the steps of the router task
RouterNext ==
    \/ RouterReceive
    \/ \E room \in XmppRooms : RouterJoin(room)
    \/ RouterJoinDone
    \/ RouterSendXmpp
    \/ RouterSendMatrix
    \/ RouterCall
    \/ RouterRetryStep
    \/ RouterRetryReturn

\* the adapters' tasks without attachments: text messages arrive, the XMPP
\* connection is lost and restored
TextNext ==
    \/ \E c \in ChannelSet : BmatrixHandleMessageEvent(c, 0)
    \/ \E c \in ChannelSet : BxmppHandleChat(c, 0)
    \/ handleXMPPError
    \/ \E ok \in BOOLEAN : createXMPP(ok)
    \/ publishRejoin

\* messages with attachments arrive and their background downloads finish
AttachmentNext ==
    \/ \E c \in ChannelSet : BmatrixHandleMessageEvent(c, 1)
    \/ \E c \in ChannelSet : BxmppHandleChat(c, 1)
    \/ \E msg \in downloads : \E ok \in BOOLEAN : DownloadDone(msg, ok)

RelayNext == RouterNext \/ TextNext \/ AttachmentNext

SpecRelay == RelayInit /\ [][RelayNext /\ UNCHANGED extVars]_vars

\* the relay with text messages only, under the scheduling the runtime
\* gives: a runnable router task is scheduled and a backend answers, the
\* rejoin event is published once the channel has room, and the server does
\* not refuse the connection for ever
FairRelay ==
    /\ RelayInit
    /\ [][(RouterNext \/ TextNext) /\ UNCHANGED extVars]_vars
    /\ WF_vars(RouterNext /\ UNCHANGED extVars)
    /\ WF_vars(publishRejoin /\ UNCHANGED extVars)
    /\ WF_vars(createXMPP(TRUE) /\ UNCHANGED extVars)

\* C2: for one origin and one destination, the envelopes of the origin are
\* sent to the destination in the order in which the origin's backend
\* produced them, also when some of them carry an attachment that a
\* background task downloads before the envelope is published.
C2_OriginOrderKept ==
    \A i, j \in 1..Len(relayLog) :
        (i < j /\ relayLog[i].dest = relayLog[j].dest
               /\ relayLog[i].origin = relayLog[j].origin) =>
            relayLog[i].seq < relayLog[j].seq

\* C2, the case that diverges: a message was sent to a destination before
\* an earlier message of the same room.
C2_Witness ==
    \E i, j \in 1..Len(relayLog) :
        /\ i < j
        /\ relayLog[i].dest = relayLog[j].dest
        /\ relayLog[i].origin = relayLog[j].origin
        /\ relayLog[i].seq > relayLog[j].seq

\* a Send to the Matrix destination, or the rejoin of the XMPP rooms, is
\* blocked: the task that runs it sleeps in retry, or is inside JoinChannels
SendBlocked ==
    \/ routerPc = "retry" /\ pc[RouterTask] = "sleep" /\ rateMutex = RouterTask
    \/ routerPc = "join"

\* C9: while a Send to destination D is blocked (asleep in D's rate-limit
\* retry loop, or rejoining D's rooms) the router is not stalled: it can
\* take the next envelope from the ingress channel.
C9_RouterNotStalled ==
    (SendBlocked /\ ingress # <<>>) => ENABLED RouterReceive

\* C9, the case that diverges: the Send to Matrix sleeps in retry on the
\* router task while an envelope of the Matrix room, whose only destinations
\* are XMPP rooms, waits in the ingress channel.
C9_Witness ==
    /\ routerPc = "retry"
    /\ pc[RouterTask] = "sleep"
    /\ ingress # <<>>
    /\ Head(ingress).account = "matrix.m"
    /\ \A k \in 1..Len(routerDests(Head(ingress))) :
         routerDests(Head(ingress))[k].account # "matrix.m"
    /\ ~ENABLED RouterReceive

\* C10: when the XMPP connection was lost and the connect attempt failed
\* twice before it succeeded, the rejoin-channels event reaches the router
\* and JoinChannel is issued for every configured room: eventually the
\* router has handled the rejoin of that reconnect and every room is joined.
C10_RejoinedAfterReconnect ==
    \A k \in 1..MaxDrops :
        (connPc = "rejoin" /\ refused = 2 /\ reconnects = k)
            ~> (rejoinsDone >= k /\ joined = XmppRooms)

\* C10 witness: the connection was lost, two connect attempts were refused,
\* the third succeeded, the router handled the rejoin-channels event and
\* joined both rooms again.
C10_Witness ==
    /\ reconnects >= 1
    /\ refused = 2
    /\ rejoinsDone >= reconnects
    /\ joined = XmppRooms
    /\ routerPc = "idle"

\* the rejoin-channels events manageConnection has published so far: those
\* waiting in the ingress channel, the one the router is handling and those
\* it has handled
RejoinsPublished ==
    Cardinality({i \in 1..Len(ingress) : ingress[i].event = EventRejoinChannels})
      + (IF routerPc = "join" THEN 1 ELSE 0) + rejoinsDone

\* C25: manageConnection publishes exactly one rejoin-channels event after
\* each successful reconnect, before it resumes reading, none for the
\* initial connection and none while the reconnect attempts fail: while it
\* reads, and while it tries to reconnect, the events published are as many
\* as the reconnects that succeeded, and between a successful reconnect and
\* the reading one event is still to come.
C25_OneRejoinPerReconnect ==
    /\ connPc \in {"handle", "reconnect"} => RejoinsPublished = reconnects
    /\ connPc = "rejoin" => RejoinsPublished = reconnects - 1

\* C25 witness: the connection was lost, a connect attempt failed, the next
\* one succeeded, and manageConnection reads again after it has published
\* its one rejoin-channels event.
C25_Witness ==
    /\ reconnects = 1
    /\ refused >= 1
    /\ connPc = "handle"
    /\ RejoinsPublished = 1

\* the envelopes the adapters have placed on the ingress channel and the
\* router has not taken yet
Placed == {ingress[i] : i \in 1..Len(ingress)}

\* C28: every envelope an adapter places on the ingress channel, control
\* events included, has an empty channel only if its event is join-leave or
\* failure.
C28_EmptyChannelOnlyJoinLeaveOrFailure ==
    \A msg \in Placed :
        msg.channel = "" => msg.event \in {EventJoinLeave, EventFailure}

\* C28 witness: envelopes with a channel are on the ingress channel
C28_Witness ==
    /\ Len(ingress) = MaxIngress
    /\ \A msg \in Placed : msg.channel # ""

\* C31: when the download of an inbound message's attachment fails, only the
\* attachment is dropped: whenever a background download task ends, an
\* envelope of its message is on the ingress channel.
C31_FailedDownloadKeepsTheMessage ==
    [][\A msg \in downloads \ downloads' :
          \E i \in 1..Len(ingress') : ingress'[i].seq = msg.seq]_vars

\* C31 witness: a Matrix and an XMPP message whose downloads succeeded are on
\* the ingress channel.
C31_Witness ==
    /\ \E i, j \in 1..Len(ingress) :
         /\ ingress[i].file = 1 /\ Protocol(ingress[i].account) = "matrix"
         /\ ingress[j].file = 1 /\ Protocol(ingress[j].account) = "xmpp"
    /\ downloads = {}

(***************************************************************************)
(* The adapters' readers and the echo of the bridge's own posts: whatever  *)
(* a bridge sends into a room comes back from the backend as an event of   *)
(* the bot user, and each reader has to leave it out.  JIDs and nicks are  *)
(* sequences of characters, so that parseNick splits them as the code does.*)
(***************************************************************************)
\* user-caused backend events in one run
MaxPosts == 2
\* envelopes the router relays in one run
MaxRelays == 2

\* the gateway of this part: a Matrix room, an XMPP room and a Mastodon timeline
EchoInOut == <<Chan("matrix.m", "a"), Chan("xmpp.x", "r"), Chan("mastodon.d", "home")>>

\* Bmatrix.UserID, the user the Matrix bridge logged in as
BmatrixUserID == "@bot:m"

\* the values the setting Nick takes here; a nick is the resource part of
\* the occupant's JID and may hold any character
Nicks == { <<"b">>, <<"b", "o", "t">>, <<"b", "@", "t">>, <<"b", "/", "t">> }

\* the nick of another occupant of the room
OtherNick == <<"a">>

\* the setting Muc
Muc == <<"m">>

\* the JID of an occupant of a room: room@muc/nick
OccupantJID(room, nick) == room \o <<"@">> \o Muc \o <<"/">> \o nick

\* strings.Split for a separator of one character
RECURSIVE Split(_, _)
Split(str, sep) ==
    IF \A i \in 1..Len(str) : str[i] # sep
    THEN <<str>>
    ELSE LET k == CHOOSE i \in 1..Len(str) :
                      str[i] = sep /\ \A j \in 1..(i - 1) : str[j] # sep
         IN  <<SubSeq(str, 1, k - 1)>> \o Split(SubSeq(str, k + 1, Len(str)), sep)

\* Bxmpp.parseNick
parseNick(remote) ==
    LET s == Split(remote, "@")
    IN  IF Len(s) > 1
        THEN LET t == Split(s[2], "/")
             IN  IF Len(t) = 2 THEN t[2] ELSE <<>>
        ELSE <<>>

\* Bxmpp.parseChannel
parseChannel(remote) ==
    LET s == Split(remote, "@")
    IN  IF Len(s) >= 2 THEN s[1] ELSE <<>>

\* Bxmpp.skipMessage: text is "" | "hi" | "</subject>" | "has set the subject
\* to:", early says that the bridge started less than five seconds ago,
\* delayed that the stamp of the message is older than five minutes
skipMessage(message) ==
    \/ parseNick(message.sender) = xmppNick
    \/ message.text = ""
    \/ message.text = "</subject>"
    \/ message.text = "has set the subject to:" /\ message.early
    \/ message.delayed

\* a backend event as the adapter's client library hands it to the reader
BackendEvent(c, kind, sender, text, early, delayed) ==
    [account |-> c.account, channel |-> c.name, kind |-> kind, sender |-> sender,
     text |-> text, early |-> early, delayed |-> delayed]

\* what the backend reports as the sender of something the bridge itself sent
OwnSender(c) ==
    CASE Protocol(c.account) = "matrix" -> BmatrixUserID
      [] Protocol(c.account) = "xmpp" -> OccupantJID(<<c.name>>, xmppNick)
      [] Protocol(c.account) = "mastodon" -> MastodonAccountID

\* the sender of an event another user caused
OtherSender(c) ==
    CASE Protocol(c.account) = "matrix" -> "@alice:m"
      [] Protocol(c.account) = "xmpp" -> OccupantJID(<<c.name>>, OtherNick)
      [] Protocol(c.account) = "mastodon" -> "alice"

\* the events a backend delivers for one room, by the bot user or another
BackendEvents(c) ==
    CASE Protocol(c.account) = "matrix" ->
            { BackendEvent(c, kind, sender, "hi", FALSE, FALSE) :
                kind \in {"message", "redaction"},
                sender \in {OwnSender(c), OtherSender(c)} }
      [] Protocol(c.account) = "xmpp" ->
            { BackendEvent(c, "groupchat", sender, "hi", FALSE, FALSE) :
                sender \in {OwnSender(c), OtherSender(c)} }
            \cup { BackendEvent(c, "groupchat", OtherSender(c), "", FALSE, FALSE),
                   BackendEvent(c, "groupchat", OtherSender(c), "</subject>", FALSE, FALSE),
                   BackendEvent(c, "groupchat", OtherSender(c),
                                "has set the subject to:", TRUE, FALSE),
                   BackendEvent(c, "groupchat", OtherSender(c), "hi", FALSE, TRUE) }
      [] Protocol(c.account) = "mastodon" ->
            { BackendEvent(c, "status", sender, "hi", FALSE, FALSE) :
                sender \in {OwnSender(c), OtherSender(c)} }

\* the envelope a reader builds from a backend event
EchoEnvelope(e, channel) ==
    [account |-> e.account, channel |-> channel,
     event |-> IF e.kind = "redaction" THEN EventMsgDelete
               ELSE IF e.text = "has set the subject to:" THEN EventTopicChange
               ELSE "",
     text |-> e.text]

\* the reader has handled the head of pending and published env, or nothing
ReaderDone(publish, env) ==
    /\ pending' = Tail(pending)
    /\ readLog' = Append(readLog, [event |-> Head(pending), published |-> publish])
    /\ remoteQ' = IF publish THEN Append(remoteQ, env) ELSE remoteQ
    /\ UNCHANGED <<xmppNick, posts, relays>>

\* Bmatrix.handleMessageEvent and Bmatrix.handleRedactionEvent
BmatrixHandleEvent ==
    /\ pending # <<>>
    /\ Protocol(Head(pending).account) = "matrix"
    /\ LET ev == Head(pending)
       IN  IF ev.sender = BmatrixUserID
           THEN ReaderDone(FALSE, EchoEnvelope(ev, ev.channel))
           ELSE ReaderDone(TRUE, EchoEnvelope(ev, ev.channel))

\* Bxmpp.handleXMPP, case xmpp.Chat of type groupchat
BxmppHandleGroupchat ==
    /\ pending # <<>>
    /\ Protocol(Head(pending).account) = "xmpp"
    /\ LET v == Head(pending)
           channel == parseChannel(v.sender)
       IN  IF skipMessage(v)
           THEN ReaderDone(FALSE, EchoEnvelope(v, ""))
           ELSE ReaderDone(TRUE, EchoEnvelope(v, IF channel = <<>> THEN "" ELSE channel[1]))

\* Bmastodon.handleSendRemoteStatus
BmastodonHandleStatus ==
    /\ pending # <<>>
    /\ Protocol(Head(pending).account) = "mastodon"
    /\ LET msg == Head(pending)
       IN  IF msg.sender = MastodonAccountID
           THEN ReaderDone(FALSE, EchoEnvelope(msg, msg.channel))
           ELSE ReaderDone(TRUE, EchoEnvelope(msg, msg.channel))

\* a user, or another session of the bot user, causes an event in room c
BackendPost(c, e) ==
    /\ posts < MaxPosts
    /\ posts' = posts + 1
    /\ pending' = Append(pending, e)
    /\ UNCHANGED <<xmppNick, remoteQ, readLog, relays>>

\* what the backend of channel c reports back after the bridge sent env into
\* it: the bridge's own post, or nothing where Send posts nothing
EchoOf(env, c) ==
    IF env.event = EventMsgDelete
    THEN IF Protocol(c.account) = "matrix"
         THEN <<BackendEvent(c, "redaction", OwnSender(c), env.text, FALSE, FALSE)>>
         ELSE <<>>
    ELSE <<BackendEvent(c, CASE Protocol(c.account) = "matrix" -> "message"
                             [] Protocol(c.account) = "xmpp" -> "groupchat"
                             [] Protocol(c.account) = "mastodon" -> "status",
                        OwnSender(c), env.text, FALSE, FALSE)>>

\* the echoes of env from the channels i..3 of the gateway other than its origin
RECURSIVE EchoesFrom(_, _)
EchoesFrom(env, i) ==
    IF i > Len(EchoInOut) THEN <<>>
    ELSE (IF EchoInOut[i].account = env.account THEN <<>> ELSE EchoOf(env, EchoInOut[i]))
         \o EchoesFrom(env, i + 1)

\* the router takes an envelope and the destinations' Send posts it
EchoRelay ==
    /\ remoteQ # <<>>
    /\ relays < MaxRelays
    /\ relays' = relays + 1
    /\ remoteQ' = Tail(remoteQ)
    /\ pending' = pending \o EchoesFrom(Head(remoteQ), 1)
    /\ UNCHANGED <<xmppNick, readLog, posts>>

EchoInit ==
    /\ Ext2Idle
    /\ LifeIdle
    /\ MediaIdle
    /\ AttachIdle
    /\ RetryIdle
    /\ GwIdle
    /\ RelayIdle
    /\ xmppNick \in Nicks
    /\ pending = <<>>
    /\ remoteQ = <<>>
    /\ readLog = <<>>
    /\ posts = 0
    /\ relays = 0

EchoNext ==
    \/ \E i \in 1..Len(EchoInOut) : \E e \in BackendEvents(EchoInOut[i]) :
          BackendPost(EchoInOut[i], e)
    \/ BmatrixHandleEvent
    \/ BxmppHandleGroupchat
    \/ BmastodonHandleStatus
    \/ EchoRelay

SpecEcho ==
    EchoInit
    /\ [][EchoNext /\ UNCHANGED <<retryVars, gwVars, relayVars, mediaVars, attachVars,
                                  lifeVars,
            ext2Vars>>]_vars

\* the channel of the gateway a backend event belongs to
ChannelOf(e) == Chan(e.account, e.channel)

\* C14: a backend event whose sender is the bridge's own identity (the
\* Matrix UserID, the occupant with the configured XMPP Nick, the logged-in
\* Mastodon account) never makes its reader publish an envelope.
C14_OwnEventsNotPublished ==
    \A i \in 1..Len(readLog) :
        readLog[i].event.sender = OwnSender(ChannelOf(readLog[i].event))
            => ~readLog[i].published

\* C14 witness: the readers of all three bridges have been handed an event of
\* their own bot user, after the router relayed a message of another user.
C14_Witness ==
    /\ relays > 0
    /\ \A p \in {"matrix", "xmpp", "mastodon"} :
         \E i \in 1..Len(readLog) :
            /\ Protocol(readLog[i].event.account) = p
            /\ readLog[i].event.sender = OwnSender(ChannelOf(readLog[i].event))


(***************************************************************************)
(* The media server: createMediaServer chooses the variant from the        *)
(* [general] settings, Gateway.handleFiles normalises the name of every    *)
(* file of an envelope and hands it to the variant's handleFilesUpload.    *)
(* Names, paths and URLs are sequences of characters.                      *)
(***************************************************************************)
\* characters in the name of a file
MaxNameLen == 3

UpperCase == <<"A", "B", "C", "D", "E", "F", "G", "H", "I", "J", "K", "L", "M",
               "N", "O", "P", "Q", "R", "S", "T", "U", "V", "W", "X", "Y", "Z">>

LowerCase == <<"a", "b", "c", "d", "e", "f", "g", "h", "i", "j", "k", "l", "m",
               "n", "o", "p", "q", "r", "s", "t", "u", "v", "w", "x", "y", "z">>

Digits == <<"0", "1", "2", "3", "4", "5", "6", "7", "8", "9">>

Range(f) == {f[i] : i \in DOMAIN f}

IsLetter(ch) == ch \in Range(UpperCase) \cup Range(LowerCase)

IsDigit(ch) == ch \in Range(Digits)

\* strings.ToLower
ToLower(str) ==
    [i \in 1..Len(str) |->
        IF str[i] \in Range(UpperCase)
        THEN LowerCase[CHOOSE k \in 1..26 : UpperCase[k] = str[i]]
        ELSE str[i]]

\* strings.HasPrefix
HasPrefix(str, prefix) ==
    Len(str) >= Len(prefix) /\ SubSeq(str, 1, Len(prefix)) = prefix

\* strings.Index for one character: the position of its first occurrence, or 0
IndexOf(str, ch) ==
    IF \E i \in 1..Len(str) : str[i] = ch
    THEN CHOOSE i \in 1..Len(str) : str[i] = ch /\ \A j \in 1..(i - 1) : str[j] # ch
    ELSE 0

\* url.getScheme: <<scheme, rest, err>>
RECURSIVE getSchemeFrom(_, _)
getSchemeFrom(rawURL, i) ==
    IF i > Len(rawURL) THEN <<<<>>, rawURL, FALSE>>
    ELSE IF IsLetter(rawURL[i]) THEN getSchemeFrom(rawURL, i + 1)
    ELSE IF IsDigit(rawURL[i]) \/ rawURL[i] \in {"+", "-", "."}
         THEN IF i = 1 THEN <<<<>>, rawURL, FALSE>> ELSE getSchemeFrom(rawURL, i + 1)
    ELSE IF rawURL[i] = ":"
         THEN IF i = 1 THEN <<<<>>, <<>>, TRUE>>
              ELSE <<SubSeq(rawURL, 1, i - 1), SubSeq(rawURL, i + 1, Len(rawURL)), FALSE>>
    ELSE <<<<>>, rawURL, FALSE>>

\* url.Parse, as far as createMediaServer uses its result: Scheme, Host, Path
\* and whether it returned an error
urlParse(rawURL) ==
    LET gs == getSchemeFrom(rawURL, 1)
        scheme == ToLower(gs[1])
        rest == gs[2]
        firstSeg == IF IndexOf(rest, "/") = 0 THEN rest
                    ELSE SubSeq(rest, 1, IndexOf(rest, "/") - 1)
    IN  IF gs[3] THEN [err |-> TRUE, Scheme |-> <<>>, Host |-> <<>>, Path |-> <<>>]
        ELSE IF ~HasPrefix(rest, <<"/">>) /\ scheme # <<>>
             THEN [err |-> FALSE, Scheme |-> scheme, Host |-> <<>>, Path |-> <<>>]
        ELSE IF ~HasPrefix(rest, <<"/">>) /\ IndexOf(firstSeg, ":") # 0
             THEN [err |-> TRUE, Scheme |-> <<>>, Host |-> <<>>, Path |-> <<>>]
        ELSE IF (scheme # <<>> \/ ~HasPrefix(rest, <<"/", "/", "/">>))
                /\ HasPrefix(rest, <<"/", "/">>)
             THEN LET after == SubSeq(rest, 3, Len(rest))
                      k == IndexOf(after, "/")
                  IN  [err |-> FALSE, Scheme |-> scheme,
                       Host |-> IF k = 0 THEN after ELSE SubSeq(after, 1, k - 1),
                       Path |-> IF k = 0 THEN <<>> ELSE SubSeq(after, k, Len(after))]
        ELSE [err |-> FALSE, Scheme |-> scheme, Host |-> <<>>, Path |-> rest]

\* strings.Trim(str, "/")
RECURSIVE TrimSlash(_)
TrimSlash(str) ==
    IF str = <<>> THEN str
    ELSE IF Head(str) = "/" THEN TrimSlash(Tail(str))
    ELSE IF str[Len(str)] = "/" THEN TrimSlash(SubSeq(str, 1, Len(str) - 1))
    ELSE str

\* what createMediaServer returns: a media server of one kind, or an error
NoServer(err) ==
    [kind |-> "none", err |-> err, httpUploadPath |-> <<>>, localPath |-> <<>>,
     bucket |-> <<>>, uploadPrefix |-> <<>>, presign |-> FALSE,
     httpDownloadPrefix |-> <<>>]

\* createS3MediaServer
createS3MediaServer(bg, bucketName, uploadPrefix) ==
    IF bucketName = <<>> \/ bg.S3Endpoint = <<>> \/ bg.S3AccessKey = <<>>
       \/ bg.S3SecretKey = <<>>
    THEN NoServer("configuration")
    ELSE IF ~bg.headBucketOk THEN NoServer("runtime")
    ELSE [kind |-> "s3", err |-> "", httpUploadPath |-> <<>>, localPath |-> <<>>,
          bucket |-> bucketName, uploadPrefix |-> TrimSlash(uploadPrefix),
          presign |-> bg.S3Presign, httpDownloadPrefix |-> bg.MediaServerDownload]

\* a faulty choice: a configured MediaDownloadPath wins over MediaServerUpload
createMediaServer_LocalFirst(bg) ==
    IF bg.MediaDownloadPath # <<>>
    THEN [NoServer("") EXCEPT !.kind = "local", !.localPath = bg.MediaDownloadPath,
                               !.httpDownloadPrefix = bg.MediaServerDownload]
    ELSE NoServer("notWanted")

\* createMediaServer
createMediaServer(bg) ==
    IF bg.MediaServerUpload = <<>> /\ bg.MediaDownloadPath = <<>>
    THEN NoServer("notWanted")
    ELSE IF bg.MediaServerUpload # <<>>
    THEN LET parsed == urlParse(bg.MediaServerUpload)
         IN  IF parsed.err THEN NoServer("configuration")
             ELSE IF parsed.Scheme = <<"h", "t", "t", "p">> \/ parsed.Scheme = <<"h", "t", "t", "p", "s">>
             THEN [NoServer("") EXCEPT !.kind = "httpPut",
                                        !.httpUploadPath = bg.MediaServerUpload,
                                        !.httpDownloadPrefix = bg.MediaServerDownload]
             ELSE IF parsed.Scheme = <<"s", "3">>
             THEN LET srv == createS3MediaServer(bg, parsed.Host, parsed.Path)
                  IN  IF srv.err = "" THEN srv ELSE NoServer("configuration")
             ELSE NoServer("configuration")
    ELSE [NoServer("") EXCEPT !.kind = "local", !.localPath = bg.MediaDownloadPath,
                               !.httpDownloadPrefix = bg.MediaServerDownload]

\* the [general] settings of one configuration file, and whether the HEAD
\* request for the bucket succeeds
BridgeValues(upload, path, endpoint, access, secret, presign, head) ==
    [MediaServerUpload |-> upload, MediaDownloadPath |-> path,
     MediaServerDownload |-> <<"d">>, S3Endpoint |-> endpoint, S3AccessKey |-> access,
     S3SecretKey |-> secret, S3Presign |-> presign, headBucketOk |-> head]

\* values of MediaServerUpload that do not name an S3 bucket
PlainUploads ==
    { <<>>, <<"h", "t", "t", "p", ":", "/", "/", "u">>, <<"h", "t", "t", "p", "s", ":", "/", "/", "u", "/">>, <<"H", "T", "T", "P", ":", "/", "/", "u">>, <<"f", "t", "p", ":", "/", "/", "u">>, <<"u">>, <<"/", "u">>,
      <<":", "u">>, <<"h", ":", "u">> }

\* values of MediaServerUpload with the scheme s3
S3Uploads == { <<"s", "3", ":", "/", "/", "b", "/", "p">>, <<"s", "3", ":", "/", "/", "b">>, <<"s", "3", ":", "/", "/", "/", "p">>, <<"S", "3", ":", "/", "/", "b", "/", "p", "/">> }

\* values of MediaDownloadPath
DownloadPaths == { <<>>, <<"/", "v">> }

MediaConfigs ==
    { BridgeValues(upload, path, <<"e">>, <<"k">>, <<"s">>, FALSE, TRUE) :
        upload \in PlainUploads, path \in DownloadPaths }
    \cup { BridgeValues(upload, path, endpoint, access, secret, FALSE, head) :
             upload \in S3Uploads, path \in DownloadPaths,
             endpoint \in {<<>>, <<"e">>}, access \in {<<>>, <<"k">>},
             secret \in {<<>>, <<"s">>}, head \in BOOLEAN }
    \cup { BridgeValues(upload, <<>>, <<"e">>, <<"k">>, <<"s">>, TRUE, TRUE) :
             upload \in S3Uploads }

\* the gateway is constructed: createMediaServer runs once
CreateMediaServer ==
    /\ mediaPc = "configured"
    /\ mediaServer' = createMediaServer(mediaCfg)
    /\ mediaPc' = "created"
    /\ UNCHANGED <<mediaCfg, msgFiles, msgFields, stored>>

MediaServerInit ==
    /\ Ext2Idle
    /\ LifeIdle
    /\ AttachIdle
    /\ RetryIdle
    /\ GwIdle
    /\ RelayIdle
    /\ EchoIdle
    /\ mediaCfg \in MediaConfigs
    /\ mediaServer = <<>>
    /\ msgFiles = <<>>
    /\ msgFields = <<>>
    /\ stored = <<>>
    /\ mediaPc = "configured"

MediaServerNext == CreateMediaServer

SpecMediaServer ==
    MediaServerInit
    /\ [][MediaServerNext
            /\ UNCHANGED <<retryVars, gwVars, relayVars, echoVars, attachVars,
                           lifeVars,
            ext2Vars>>]_vars

\* the s3 settings createS3MediaServer asks for are all there and the bucket answers
S3Usable(bg) ==
    /\ urlParse(bg.MediaServerUpload).Host # <<>>
    /\ bg.S3Endpoint # <<>> /\ bg.S3AccessKey # <<>> /\ bg.S3SecretKey # <<>>
    /\ bg.headBucketOk

\* C17: the variant follows from the settings alone: none without
\* MediaServerUpload and MediaDownloadPath; HTTP PUT for the schemes http and
\* https; S3 for the scheme s3 when bucket, endpoint and keys are set and the
\* bucket answers, a configuration error otherwise; a configuration error
\* for any other scheme; local exactly when MediaServerUpload is empty and
\* MediaDownloadPath is set.
C17_VariantFromConfiguration ==
    mediaPc = "created" =>
        LET upload == mediaCfg.MediaServerUpload
            scheme == urlParse(upload).Scheme
        IN  /\ (upload = <<>> /\ mediaCfg.MediaDownloadPath = <<>>)
                 => (mediaServer.kind = "none" /\ mediaServer.err = "notWanted")
            /\ (upload # <<>> /\ scheme \in {<<"h", "t", "t", "p">>, <<"h", "t", "t", "p", "s">>})
                 => (mediaServer.kind = "httpPut" /\ mediaServer.err = "")
            /\ (upload # <<>> /\ scheme = <<"s", "3">>)
                 => IF S3Usable(mediaCfg)
                    THEN mediaServer.kind = "s3" /\ mediaServer.err = ""
                    ELSE mediaServer.kind = "none" /\ mediaServer.err = "configuration"
            /\ (upload # <<>> /\ scheme \notin {<<"h", "t", "t", "p">>, <<"h", "t", "t", "p", "s">>, <<"s", "3">>})
                 => (mediaServer.kind = "none" /\ mediaServer.err = "configuration")
            /\ mediaServer.kind = "local"
                 <=> (upload = <<>> /\ mediaCfg.MediaDownloadPath # <<>>)

\* C17 witness: with MediaDownloadPath set as well, an S3 upload URL has
\* given the S3 variant.
C17_Witness ==
    /\ mediaPc = "created"
    /\ mediaCfg.MediaDownloadPath # <<>>
    /\ urlParse(mediaCfg.MediaServerUpload).Scheme = <<"s", "3">>
    /\ mediaServer.kind = "s3"


(***************************************************************************)
(* Gateway.handleFiles and the three handleFilesUpload.                    *)
(***************************************************************************)
\* the characters the names of the files are made of
NameChars == {"a", "Z", "7", " ", "."}

\* the character class [a-zA-Z0-9]
IsAlnum(ch) == IsLetter(ch) \/ IsDigit(ch)

RECURSIVE SeqsUpTo(_, _)
SeqsUpTo(chars, n) ==
    IF n = 0 THEN {<<>>}
    ELSE LET shorter == SeqsUpTo(chars, n - 1)
         IN  shorter \cup {Append(str, ch) : str \in shorter, ch \in chars}

\* the names a backend gives to a file
FileNames == SeqsUpTo(NameChars, MaxNameLen) \ {<<>>}

\* the contents of a file
FileDatas == { <<>>, <<"a", "b", "c">> }

\* fmt.Sprintf("%x", sha1.Sum(data))
sha1Hex(data) ==
    CASE data = <<>> -> <<"d", "a", "3", "9", "a", "3", "e", "e", "5", "e", "6", "b", "4", "b", "0", "d", "3", "2", "5", "5", "b", "f", "e", "f", "9", "5", "6", "0", "1", "8", "9", "0", "a", "f", "d", "8", "0", "7", "0", "9">>
      [] data = <<"a", "b", "c">> -> <<"a", "9", "9", "9", "3", "e", "3", "6", "4", "7", "0", "6", "8", "1", "6", "a", "b", "a", "3", "e", "2", "5", "7", "1", "7", "8", "5", "0", "c", "2", "6", "c", "9", "c", "d", "0", "d", "8", "9", "d">>

\* a faulty prefix: the whole digest
sha1sum_Whole(data) == sha1Hex(data)

\* sha1Hex(data)[:8]
sha1sum(data) == SubSeq(sha1Hex(data), 1, 8)

\* filepath.Ext: the suffix that starts at the last dot of the last path element
RECURSIVE filepathExtFrom(_, _)
filepathExtFrom(path, i) ==
    IF i < 1 \/ path[i] = "/" THEN <<>>
    ELSE IF path[i] = "." THEN SubSeq(path, i, Len(path))
    ELSE filepathExtFrom(path, i - 1)

filepathExt(path) == filepathExtFrom(path, Len(path))

\* a replacement character by character: one underscore for every character
\* that is not alphanumeric
UnderscorePerChar(src) ==
    [i \in 1..Len(src) |-> IF IsAlnum(src[i]) THEN src[i] ELSE "_"]

\* regexp.MustCompile("[^a-zA-Z0-9]+").ReplaceAllString(src, "_"): every
\* maximal run of characters outside the class becomes one underscore
ReplaceAllString(src) ==
    LET keep == {i \in 1..Len(src) :
                    IsAlnum(src[i]) \/ i = 1 \/ IsAlnum(src[i - 1])}
        F[i \in 0..Len(src)] ==
            IF i = 0 THEN <<>>
            ELSE IF i \notin keep THEN F[i - 1]
            ELSE Append(F[i - 1], IF IsAlnum(src[i]) THEN src[i] ELSE "_")
    IN  F[Len(src)]

\* handleFiles: the name handed to the media server
normalisedName(name) ==
    LET ext == filepathExt(name)
    IN  ReplaceAllString(SubSeq(name, 1, Len(name) - Len(ext))) \o ext

\* strings.Join(elems, "/")
RECURSIVE JoinSlash(_)
JoinSlash(elems) ==
    IF elems = <<>> THEN <<>>
    ELSE IF Len(elems) = 1 THEN elems[1]
    ELSE elems[1] \o <<"/">> \o JoinSlash(Tail(elems))

\* path.Clean, the elements of the cleaned path: empty and "." elements go,
\* ".." takes the element before it away
RECURSIVE cleanElems(_, _, _)
cleanElems(elems, out, rooted) ==
    IF elems = <<>> THEN out
    ELSE IF Head(elems) = <<>> \/ Head(elems) = <<".">>
         THEN cleanElems(Tail(elems), out, rooted)
    ELSE IF Head(elems) = <<".", ".">>
         THEN IF out # <<>> /\ out[Len(out)] # <<".", ".">>
              THEN cleanElems(Tail(elems), SubSeq(out, 1, Len(out) - 1), rooted)
              ELSE IF rooted THEN cleanElems(Tail(elems), out, rooted)
              ELSE cleanElems(Tail(elems), Append(out, Head(elems)), rooted)
    ELSE cleanElems(Tail(elems), Append(out, Head(elems)), rooted)

\* path.Clean
pathClean(path) ==
    IF path = <<>> THEN <<".">>
    ELSE LET rooted == path[1] = "/"
             body == JoinSlash(cleanElems(Split(path, "/"), <<>>, rooted))
         IN  IF rooted THEN <<"/">> \o body
             ELSE IF body = <<>> THEN <<".">> ELSE body

\* path.Join: the non-empty elements joined with slashes and cleaned
pathJoin(elems) ==
    LET nonEmpty == SelectSeq(elems, LAMBDA e : e # <<>>)
    IN  IF nonEmpty = <<>> THEN <<>> ELSE pathClean(JoinSlash(nonEmpty))

\* config.FileInfo
FileInfo(name, data) ==
    [Name |-> name, Data |-> data, Comment |-> <<>>, Avatar |-> FALSE,
     URL |-> <<>>, SHA |-> <<>>]

\* the result of one handleFilesUpload: where the bytes went and the URL returned
Upload(place, url) == [place |-> place, url |-> url]

\* httpPutMediaServer.handleFilesUpload
httpPutUpload(h, fi) ==
    Upload(h.httpUploadPath \o <<"/">> \o pathJoin(<<sha1sum(fi.Data), fi.Name>>),
           h.httpDownloadPrefix \o <<"/">> \o pathJoin(<<sha1sum(fi.Data), fi.Name>>))

\* localMediaServer.handleFilesUpload
localUpload(h, fi) ==
    LET dir == pathJoin(<<h.localPath, sha1sum(fi.Data)>>)
    IN  Upload(pathJoin(<<dir, fi.Name>>),
               h.httpDownloadPrefix \o <<"/">> \o pathJoin(<<sha1sum(fi.Data), fi.Name>>))

\* s3MediaServer.handleFilesUpload; a presigned URL is the presign client's
PresignedURL(key) == <<"p", "r", "e", "s", "i", "g", "n", "e", "d", ":">> \o key

s3Upload(h, fi) ==
    LET key == pathJoin(<<h.uploadPrefix, sha1sum(fi.Data), fi.Name>>)
    IN  Upload(key, IF h.presign THEN PresignedURL(key)
                    ELSE h.httpDownloadPrefix \o <<"/">> \o key)

\* mediaServer.handleFilesUpload
handleFilesUpload(h, fi) ==
    CASE h.kind = "httpPut" -> httpPutUpload(h, fi)
      [] h.kind = "local" -> localUpload(h, fi)
      [] h.kind = "s3" -> s3Upload(h, fi)

\* Gateway.handleFiles
\* a faulty loop: the record written back is the local copy fi, whose name
\* has been normalised
RECURSIVE handleFilesLoop_CopyWrittenBack(_, _, _)
handleFilesLoop_CopyWrittenBack(files, i, failed) ==
    IF i = 0 THEN [files |-> files, calls |-> <<>>]
    ELSE LET before == handleFilesLoop_CopyWrittenBack(files, i - 1, failed)
             fi == [files[i] EXCEPT !.Name = normalisedName(files[i].Name)]
             up == handleFilesUpload(mediaServer, fi)
             call == [i |-> i, Name |-> fi.Name, Data |-> fi.Data,
                      place |-> up.place, ok |-> i \notin failed]
         IN  [files |-> IF i \in failed THEN before.files
                        ELSE [before.files EXCEPT
                                ![i] = [fi EXCEPT !.URL = up.url,
                                                  !.SHA = sha1sum(fi.Data)]],
              calls |-> Append(before.calls, call)]

\* handleFiles, the files 1..i done: the uploads of the files in failed
\* return an error and leave their record as it was
RECURSIVE handleFilesLoop(_, _, _)
handleFilesLoop(files, i, failed) ==
    IF i = 0 THEN [files |-> files, calls |-> <<>>]
    ELSE LET before == handleFilesLoop(files, i - 1, failed)
             fi == [files[i] EXCEPT !.Name = normalisedName(files[i].Name)]
             up == handleFilesUpload(mediaServer, fi)
             call == [i |-> i, Name |-> fi.Name, Data |-> fi.Data,
                      place |-> up.place, ok |-> i \notin failed]
         IN  [files |-> IF i \in failed THEN before.files
                        ELSE [before.files EXCEPT ![i].URL = up.url,
                                                  ![i].SHA = sha1sum(fi.Data)],
              calls |-> Append(before.calls, call)]

\* Gateway.handleFiles
handleFiles(failed) ==
    /\ mediaPc = "created"
    /\ mediaPc' = "handled"
    /\ IF mediaServer.kind = "none" \/ msgFiles = <<>>
       THEN /\ failed = {}
            /\ UNCHANGED <<msgFiles, stored>>
       ELSE LET done == handleFilesLoop(msgFiles, Len(msgFiles), failed)
            IN  /\ msgFiles' = done.files
                /\ stored' = done.calls
    /\ UNCHANGED <<mediaCfg, mediaServer, msgFields>>

\* the settings of the gateways whose envelopes carry files
UploadConfigs ==
    { BridgeValues(<<>>, <<>>, <<"e">>, <<"k">>, <<"s">>, FALSE, TRUE),
      BridgeValues(<<"h", "t", "t", "p", ":", "/", "/", "u">>, <<>>, <<"e">>, <<"k">>, <<"s">>, FALSE, TRUE),
      BridgeValues(<<>>, <<"/", "v">>, <<"e">>, <<"k">>, <<"s">>, FALSE, TRUE),
      BridgeValues(<<"s", "3", ":", "/", "/", "b", "/", "p">>, <<>>, <<"e">>, <<"k">>, <<"s">>, FALSE, TRUE),
      BridgeValues(<<"s", "3", ":", "/", "/", "b">>, <<>>, <<"e">>, <<"k">>, <<"s">>, FALSE, TRUE),
      BridgeValues(<<"S", "3", ":", "/", "/", "b", "/", "p", "/">>, <<>>, <<"e">>, <<"k">>, <<"s">>, TRUE, TRUE) }

\* a file that comes second in an envelope with two files
SecondFile ==
    [FileInfo(<<"7", ".", "a">>, <<"a", "b", "c">>) EXCEPT !.Comment = <<"c">>,
                                                           !.Avatar = TRUE]

\* the file lists of the envelopes: one file, or one file and a second one
FileLists ==
    {<<>>}
    \cup { <<FileInfo(name, data)>> : name \in FileNames, data \in FileDatas }
    \cup { <<FileInfo(name, <<>>), SecondFile>> : name \in FileNames }

MediaInit ==
    /\ Ext2Idle
    /\ LifeIdle
    /\ AttachIdle
    /\ RetryIdle
    /\ GwIdle
    /\ RelayIdle
    /\ EchoIdle
    /\ mediaCfg \in UploadConfigs
    /\ mediaServer = createMediaServer(mediaCfg)
    /\ msgFiles \in FileLists
    /\ msgFields \in { Envelope(Chan("matrix.m", "a"), "", text, "m1", "", "alice",
                                Len(msgFiles), 0) : text \in {"", "text"} }
    /\ stored = <<>>
    /\ mediaPc = "created"

MediaNext == \E failed \in SUBSET (1..Len(msgFiles)) : handleFiles(failed)

SpecMedia ==
    MediaInit
    /\ [][MediaNext /\ UNCHANGED <<retryVars, gwVars, relayVars, echoVars, attachVars,
                                   lifeVars,
            ext2Vars>>]_vars


\* C15: the name handed to the media server is the name of the file with
\* every non-alphanumeric character before the extension replaced by one
\* underscore each, so that the part before the extension keeps its length,
\* and with the extension as it was.
C15_UnderscorePerCharacter ==
    \A k \in 1..Len(stored) :
        LET name == msgFiles[stored[k].i].Name
            ext == filepathExt(name)
            base == SubSeq(name, 1, Len(name) - Len(ext))
        IN  stored[k].Name = UnderscorePerChar(base) \o ext

\* C15 witness: a name with a single non-alphanumeric character between two
\* alphanumeric ones and with an extension has been normalised.
C15_Witness ==
    \E k \in 1..Len(stored) :
        /\ msgFiles[stored[k].i].Name = <<"a", " ", ".">>
        /\ stored[k].Name = <<"a", "_", ".">>

Uploaded(log) == { log[k].i : k \in { j \in 1..Len(log) : log[j].ok } }

\* C29: handleFiles changes nothing but the URL and the SHA of the files it
\* uploaded successfully: the name, data, comment and avatar flag of every
\* file, the number and order of the files and every other field of the
\* envelope stay as they were, and without a media server or without files
\* the envelope is not changed and no upload is attempted.
C29_OnlyUrlAndShaChange ==
    [][ (mediaPc = "created" /\ mediaPc' = "handled") =>
          /\ msgFields' = msgFields
          /\ Len(msgFiles') = Len(msgFiles)
          /\ \A i \in 1..Len(msgFiles) :
                /\ msgFiles'[i].Name = msgFiles[i].Name
                /\ msgFiles'[i].Data = msgFiles[i].Data
                /\ msgFiles'[i].Comment = msgFiles[i].Comment
                /\ msgFiles'[i].Avatar = msgFiles[i].Avatar
                /\ i \notin Uploaded(stored') => msgFiles'[i] = msgFiles[i]
          /\ (mediaServer.kind = "none" \/ msgFiles = <<>>) =>
                (msgFiles' = msgFiles /\ stored' = <<>>) ]_vars

\* C29 witness: handleFiles has run on an envelope with a text and two files;
\* the first, whose name is not a normalised one, has its URL and SHA and
\* keeps its name, the upload of the second failed and its record is as it
\* was.
C29_Witness ==
    /\ mediaPc = "handled"
    /\ msgFields.text = "text"
    /\ Len(msgFiles) = 2 /\ Len(stored) = 2
    /\ stored[1].ok /\ ~stored[2].ok
    /\ msgFiles[1].Name # stored[1].Name
    /\ msgFiles[1].URL # <<>> /\ msgFiles[1].SHA # <<>>
    /\ msgFiles[2] = SecondFile

\* C30: when the upload of one attached file fails, that attachment is
\* dropped from the envelope, while the remaining attachments are still
\* uploaded.
C30_FailedUploadDropped ==
    mediaPc = "handled" =>
        /\ Len(stored) = IF mediaServer.kind = "none" THEN 0 ELSE msgFields.files
        /\ Len(msgFiles) =
             msgFields.files - Cardinality({k \in 1..Len(stored) : ~stored[k].ok})
        /\ Cardinality({i \in 1..Len(msgFiles) : msgFiles[i].URL # <<>>}) =
             Cardinality({k \in 1..Len(stored) : stored[k].ok})

\* C30 witness: the upload of the first of two files failed and the second
\* was still uploaded and has its URL.
C30_Witness ==
    /\ mediaPc = "handled"
    /\ Len(stored) = 2
    /\ ~stored[1].ok /\ stored[2].ok
    /\ msgFiles[2].URL # <<>>


(***************************************************************************)
(* Attachments of incoming messages: Bridge.addAttachment takes the bytes  *)
(* it is given or downloads them, and addAttachmentProcess checks them     *)
(* against MediaDownloadSize and MediaDownloadBlackList.                   *)
(***************************************************************************)
\* the largest MediaDownloadSize of the model, in bytes
MaxDownloadSize == 2

\* the data pointer nil
NilData == <<"nil">>

\* the bytes of an attachment: every length up to one above the largest limit
AttachmentDatas == { [i \in 1..n |-> "x"] : n \in 0..(MaxDownloadSize + 1) }

\* strings that contain the literal sub
Contains(str, sub) ==
    \E i \in 0..(Len(str) - Len(sub)) : SubSeq(str, i + 1, i + Len(sub)) = sub

\* Config.IsFilenameBlacklisted: some expression of MediaDownloadBlackList
\* matches the name; the expressions here are literals
IsFilenameBlacklisted(filename) ==
    \E pattern \in attCfg.MediaDownloadBlackList : Contains(filename, pattern)

\* a faulty limit: a file as large as MediaDownloadSize is refused as well
tooLarge_AtLimit(size) == size >= attCfg.MediaDownloadSize

\* addAttachmentProcess, the check of the size
tooLarge(size) == size > attCfg.MediaDownloadSize

\* addAttachmentProcess: the error returned and the file list afterwards
addAttachmentProcess(files, filename, id, comment, uri, data, avatar) ==
    IF tooLarge(Len(data)) THEN [err |-> "errFileTooLarge", files |-> files]
    ELSE IF IsFilenameBlacklisted(filename)
    THEN [err |-> "errFileBlacklisted", files |-> files]
    ELSE [err |-> "",
          files |-> Append(files, [Name |-> filename, Data |-> data, URL |-> uri,
                                   Comment |-> comment, Avatar |-> avatar,
                                   NativeID |-> id])]

\* the arguments of one call, what HttpGetBytes returns if it is called (the
\* bytes, or NilData for an error), and the file list the call found
AttachmentCall(filename, id, comment, uri, data, avatar, got) ==
    [filename |-> filename, id |-> id, comment |-> comment, uri |-> uri,
     data |-> data, avatar |-> avatar, got |-> got, before |-> <<>>]

\* Bridge.addAttachment
addAttachment(call) ==
    /\ attPc = "ready"
    /\ attCall' = [call EXCEPT !.before = attFiles]
    /\ IF call.data # NilData
       THEN LET r == addAttachmentProcess(attFiles, call.filename, call.id,
                                          call.comment, call.uri, call.data, call.avatar)
            IN  attErr' = r.err /\ attFiles' = r.files /\ attPc' = "returned"
       ELSE IF call.uri = <<>>
       THEN attErr' = "" /\ attFiles' = attFiles /\ attPc' = "fatal"
       ELSE IF call.got = NilData
       THEN attErr' = "errHttpGet" /\ attFiles' = attFiles /\ attPc' = "returned"
       ELSE LET r == addAttachmentProcess(attFiles, call.filename, call.id,
                                          call.comment, call.uri, call.got, call.avatar)
            IN  attErr' = r.err /\ attFiles' = r.files /\ attPc' = "returned"
    /\ UNCHANGED attCfg

\* AddAttachmentFromURL, AddAvatarFromURL, AddAttachmentFromBytes and
\* AddAvatarFromBytes with the arguments the bridges give them
AttachmentCalls ==
    { AttachmentCall(filename, ic[1], ic[2], <<"u">>, NilData, avatar, got) :
        filename \in {<<"a", ".", "p", "n", "g">>, <<"a", ".", "e", "x", "e">>}, ic \in {<<"", "">>, <<"i", "c">>},
        avatar \in BOOLEAN, got \in AttachmentDatas \cup {NilData} }
    \cup { AttachmentCall(filename, ic[1], ic[2], <<>>, data, avatar, NilData) :
             filename \in {<<"a", ".", "p", "n", "g">>, <<"a", ".", "e", "x", "e">>}, ic \in {<<"", "">>, <<"i", "c">>},
             avatar \in BOOLEAN, data \in AttachmentDatas \cup {NilData} }

\* the values of MediaDownloadBlackList
BlackLists == { {}, {<<".", "e", "x", "e">>}, {<<".", "e", "x", "e">>, <<"p", "n", "g">>} }

\* a file that an earlier call has put on the envelope
EarlierFile ==
    [Name |-> <<"b">>, Data |-> <<>>, URL |-> <<>>, Comment |-> "", Avatar |-> FALSE,
     NativeID |-> ""]

AttachInit ==
    /\ Ext2Idle
    /\ LifeIdle
    /\ RetryIdle
    /\ GwIdle
    /\ RelayIdle
    /\ EchoIdle
    /\ MediaIdle
    /\ attCfg \in [MediaDownloadSize : 0..MaxDownloadSize, MediaDownloadBlackList : BlackLists]
    /\ attFiles \in {<<>>, <<EarlierFile>>}
    /\ attCall = <<>>
    /\ attErr = ""
    /\ attPc = "ready"

AttachNext == \E call \in AttachmentCalls : addAttachment(call)

SpecAttach ==
    AttachInit
    /\ [][AttachNext /\ UNCHANGED <<retryVars, gwVars, relayVars, echoVars, mediaVars,
                                    lifeVars,
            ext2Vars>>]_vars

\* the bytes addAttachment has in hand: the ones given, or the ones downloaded
BytesOf(call) == IF call.data # NilData THEN call.data ELSE call.got

MaxDisconnects == 2
\* entries of lifeLog in one run
MaxLifeLog == 3

LifeAccounts == {"xmpp.x", "matrix.m", "mastodon.d"}

\* an entry of lifeLog, with the number of Disconnect calls and of lost
\* connections before it
LifeEntry(kind, err) ==
    [kind |-> kind, err |-> err, disconnects |-> disconnects, lost |-> lost]

LifeLogged(kind, err) ==
    /\ Len(lifeLog) < MaxLifeLog
    /\ lifeLog' = Append(lifeLog, LifeEntry(kind, err))

\* Bxmpp.Connect, Bmatrix.Connect, Bmastodon.Connect: after the login
\* succeeded, the XMPP bridge starts manageConnection and the Matrix bridge
\* handlematrix with a go statement, and Connect returns
BridgeConnect(ok) ==
    /\ lifePc = "new"
    /\ LifeLogged("connect", ~ok)
    /\ lifePc' = IF ok THEN "connected" ELSE "new"
    /\ lifeReader' = IF ok /\ Protocol(lifeAcc) \in {"xmpp", "matrix"}
                     THEN "spawned" ELSE lifeReader
    /\ UNCHANGED <<lifeAcc, lifeCancelled, disconnects, lost, xmppConnected>>

\* Bxmpp.manageConnection, its first statement b.setConnected(true)
setConnectedAtStart(flag) == TRUE

\* the task started by the go statement gets to run: manageConnection marks
\* the bridge connected and enters handleXMPP; handlematrix and the Mastodon
\* stream task enter their loop
ReaderStart ==
    /\ lifeReader = "spawned"
    /\ lifeReader' = "running"
    /\ xmppConnected' = IF Protocol(lifeAcc) = "xmpp"
                        THEN setConnectedAtStart(xmppConnected) ELSE xmppConnected
    /\ UNCHANGED <<lifeAcc, lifePc, lifeCancelled, disconnects, lost, lifeLog>>

\* Bxmpp.JoinChannel, Bmatrix.JoinChannel, Bmastodon.JoinChannel: the
\* Mastodon bridge opens the stream, keeps its cancel function and starts
\* the task that reads it; the gateway joins the channels of a bridge before
\* it disconnects it
BridgeJoinChannel ==
    /\ lifePc = "connected"
    /\ disconnects = 0
    /\ lifePc' = "joined"
    /\ lifeReader' = IF Protocol(lifeAcc) = "mastodon" THEN "spawned" ELSE lifeReader
    /\ UNCHANGED <<lifeAcc, lifeCancelled, disconnects, lost, lifeLog, xmppConnected>>

\* Bxmpp.Send of a plain message that the server accepts
BridgeSendXmpp ==
    /\ Protocol(lifeAcc) = "xmpp"
    /\ lifePc \in {"connected", "joined"}
    /\ LifeLogged("send",
                  BxmppSend(lifeAcc, Envelope(Chan("matrix.m", "a"), "", "text", "", "",
                                              "alice", 0, 0), TRUE, "id").err)
    /\ UNCHANGED <<lifeAcc, lifePc, lifeReader, lifeCancelled, disconnects, lost,
                   xmppConnected>>

\* Bxmpp.Disconnect and Bmatrix.Disconnect return nil; Bmastodon.Disconnect
\* calls the cancel function of every stream first
BridgeDisconnect ==
    /\ lifePc \in {"connected", "joined"}
    /\ disconnects < MaxDisconnects
    /\ disconnects' = disconnects + 1
    /\ lifeCancelled' = IF Protocol(lifeAcc) = "mastodon" /\ lifePc = "joined"
                        THEN TRUE ELSE lifeCancelled
    /\ UNCHANGED <<lifeAcc, lifePc, lifeReader, lost, lifeLog, xmppConnected>>

\* the reader takes an event from its backend: b.xc.Recv returns a
\* groupchat message, the syncer calls handleMessageEvent, the stream
\* delivers a status
ReaderTake ==
    /\ lifeReader = "running"
    /\ ~lifeCancelled
    /\ Len(lifeLog) < MaxLifeLog
    /\ lifeReader' = "handling"
    /\ UNCHANGED <<lifeAcc, lifePc, lifeCancelled, disconnects, lost, lifeLog,
                   xmppConnected>>

\* b.Remote <- rmsg
ReaderPublish ==
    /\ lifeReader = "handling"
    /\ LifeLogged("publish", FALSE)
    /\ lifeReader' = "running"
    /\ UNCHANGED <<lifeAcc, lifePc, lifeCancelled, disconnects, lost, xmppConnected>>

\* the cancelled Mastodon stream is closed and the range loop over it ends
ReaderStop ==
    /\ lifeReader = "running"
    /\ lifeCancelled
    /\ lifeReader' = "stopped"
    /\ UNCHANGED <<lifeAcc, lifePc, lifeCancelled, disconnects, lost, lifeLog,
                   xmppConnected>>

\* Bxmpp.manageConnection: handleXMPP returned an error
ConnectionLost ==
    /\ Protocol(lifeAcc) = "xmpp"
    /\ lifeReader = "running"
    /\ lost < MaxDrops
    /\ lost' = lost + 1
    /\ xmppConnected' = FALSE
    /\ lifeReader' = "reconnect"
    /\ UNCHANGED <<lifeAcc, lifePc, lifeCancelled, disconnects, lifeLog>>

\* Bxmpp.manageConnection: createXMPP succeeded again, the bridge is marked
\* connected and the rejoin event is published
Reconnected ==
    /\ lifeReader = "reconnect"
    /\ LifeLogged("publish", FALSE)
    /\ xmppConnected' = TRUE
    /\ lifeReader' = "running"
    /\ UNCHANGED <<lifeAcc, lifePc, lifeCancelled, disconnects, lost>>

LifeInit ==
    /\ Ext2Idle
    /\ RetryIdle
    /\ RelayIdle
    /\ EchoIdle
    /\ MediaIdle
    /\ AttachIdle
    /\ gwInOut = <<>>
    /\ cfg = {}
    /\ xmppConnected = FALSE
    /\ table = <<>>
    /\ envLog = <<>>
    /\ sendLog = <<>>
    /\ failsLeft = 0
    /\ lifeAcc \in LifeAccounts
    /\ lifePc = "new"
    /\ lifeReader = "none"
    /\ lifeCancelled = FALSE
    /\ disconnects = 0
    /\ lost = 0
    /\ lifeLog = <<>>

LifeNext ==
    \/ \E ok \in BOOLEAN : BridgeConnect(ok)
    \/ ReaderStart
    \/ BridgeJoinChannel
    \/ BridgeSendXmpp
    \/ BridgeDisconnect
    \/ ReaderTake
    \/ ReaderPublish
    \/ ReaderStop
    \/ ConnectionLost
    \/ Reconnected

SpecLifecycle ==
    LifeInit
    /\ [][LifeNext /\ UNCHANGED <<retryVars, gwConfig, relayVars, echoVars, mediaVars,
                                  attachVars,
            ext2Vars>>]_vars

\* C19: a Send of the XMPP bridge made after Connect returned ok, with no
\* connection lost and no Disconnect before it, is not refused as "not
\* connected".
C19_ConnectedWhenConnectReturns ==
    \A i \in 1..Len(lifeLog) :
        (lifeLog[i].kind = "send" /\ lifeLog[i].lost = 0 /\ lifeLog[i].disconnects = 0)
            => ~lifeLog[i].err

\* C19 witness: after Connect returned ok a Send was made before any loss of
\* the connection and any Disconnect, and it was accepted.
C19_Witness ==
    /\ Protocol(lifeAcc) = "xmpp"
    /\ \E i, k \in 1..Len(lifeLog) :
         /\ i < k
         /\ lifeLog[i].kind = "connect" /\ ~lifeLog[i].err
         /\ lifeLog[k].kind = "send" /\ ~lifeLog[k].err
         /\ lifeLog[k].lost = 0 /\ lifeLog[k].disconnects = 0

\* C20: once a call of Disconnect has returned, the bridge publishes no
\* further envelope, for the XMPP, the Matrix and the Mastodon bridge.
C20_NoPublishAfterDisconnect ==
    \A i \in 1..Len(lifeLog) :
        lifeLog[i].kind = "publish" => lifeLog[i].disconnects = 0

\* C20 witness: Disconnect has returned twice for the Mastodon bridge, its
\* stream task has ended, and nothing was published after the first call.
C20_Witness ==
    /\ Protocol(lifeAcc) = "mastodon"
    /\ disconnects = 2
    /\ lifeReader = "stopped"
    /\ \E i \in 1..Len(lifeLog) : lifeLog[i].kind = "publish"
    /\ \A i \in 1..Len(lifeLog) :
         lifeLog[i].kind = "publish" => lifeLog[i].disconnects = 0


(***************************************************************************)
(* Joining the channels: Bridge.JoinChannels joins the configured channels *)
(* that are not in br.Joined, and the router's handler of rejoin-channels  *)
(* empties br.Joined of the bridge of the account and calls JoinChannels.  *)
(* The range over the map b.Channels visits the IDs in any order.          *)
(***************************************************************************)
\* the calls of JoinChannels and of the handler in one run
MaxJoinCalls == 3

\* the bridges of the gateways
JoinAccounts == {"matrix.m", "xmpp.x"}

\* the ID of a channel: its name followed by its account
ChannelID(name, acc) == name \o acc

\* the keys of b.Channels: the IDs of the channels configured for the bridge
BridgeChannels(acc) ==
    { ChannelID(name, acc) :
        name \in IF acc = "matrix.m" THEN {"a", "b"} ELSE {"b", "c"} }

\* the orders in which a range over a map with the keys S may visit them
MapOrders(S) ==
    { f \in [1..Cardinality(S) -> S] : \A i, j \in 1..Cardinality(S) : f[i] = f[j] => i = j }

\* b.JoinChannel(channel) returns an error: Bmatrix.JoinChannel returns
\* what retry returned, Bxmpp.JoinChannel returns nil always
JoinChannelFails(acc, ID, failing) == Protocol(acc) = "matrix" /\ ID \in failing

\* Bridge.joinChannels
\* a faulty loop: the test of exists[ID] is missing
RECURSIVE joinChannels_ExistsIgnored(_, _, _, _)
joinChannels_ExistsIgnored(acc, order, exists, failing) ==
    IF order = <<>> THEN [exists |-> exists, calls |-> <<>>, err |-> FALSE]
    ELSE IF JoinChannelFails(acc, Head(order), failing)
    THEN [exists |-> exists, calls |-> <<Head(order)>>, err |-> TRUE]
    ELSE LET rest == joinChannels_ExistsIgnored(acc, Tail(order),
                                                exists \cup {Head(order)}, failing)
         IN  [exists |-> rest.exists, calls |-> <<Head(order)>> \o rest.calls,
              err |-> rest.err]

\* a faulty loop: the error of JoinChannel is logged and the loop goes on
RECURSIVE joinChannels_ErrorSkipped(_, _, _, _)
joinChannels_ErrorSkipped(acc, order, exists, failing) ==
    IF order = <<>> THEN [exists |-> exists, calls |-> <<>>, err |-> FALSE]
    ELSE IF Head(order) \in exists
    THEN joinChannels_ErrorSkipped(acc, Tail(order), exists, failing)
    ELSE LET failed == JoinChannelFails(acc, Head(order), failing)
             rest == joinChannels_ErrorSkipped(acc, Tail(order),
                        IF failed THEN exists ELSE exists \cup {Head(order)}, failing)
         IN  [exists |-> rest.exists, calls |-> <<Head(order)>> \o rest.calls,
              err |-> failed \/ rest.err]

\* Bridge.joinChannels(channels, exists) with the channels visited in the
\* given order: the map exists afterwards, the calls of JoinChannel made,
\* and whether an error was returned
RECURSIVE joinChannels(_, _, _, _)
joinChannels(acc, order, exists, failing) ==
    IF order = <<>> THEN [exists |-> exists, calls |-> <<>>, err |-> FALSE]
    ELSE IF Head(order) \in exists
    THEN joinChannels(acc, Tail(order), exists, failing)
    ELSE IF JoinChannelFails(acc, Head(order), failing)
    THEN [exists |-> exists, calls |-> <<Head(order)>>, err |-> TRUE]
    ELSE LET rest == joinChannels(acc, Tail(order), exists \cup {Head(order)}, failing)
         IN  [exists |-> rest.exists, calls |-> <<Head(order)>> \o rest.calls,
              err |-> rest.err]

\* one entry of the log
JoinEntry(kind, acc, after, r) ==
    [kind |-> kind, account |-> acc, before |-> brJoined, after |-> after,
     calls |-> r.calls, err |-> r.err]

NoJoin == [exists |-> {}, calls |-> <<>>, err |-> FALSE]

\* Bridge.JoinChannels of the bridge acc
JoinChannels(acc, order, failing) ==
    /\ Len(joinLog) < MaxJoinCalls
    /\ LET r == joinChannels(acc, order, brJoined[acc], failing)
           after == [brJoined EXCEPT ![acc] = r.exists]
       IN  /\ brJoined' = after
           /\ joinLog' = Append(joinLog, JoinEntry("JoinChannels", acc, after, r))

\* handleEventRejoinChannels
\* a faulty handler: br.Joined is kept as it is
rejoinExists_Kept(exists) == exists

\* br.Joined = make(map[string]bool)
rejoinExists(exists) == {}

\* Router.handleEventRejoinChannels(msg): any other event returns at once,
\* and only the bridges of the account of msg are touched
handleEventRejoinChannels(msg, order, failing) ==
    /\ Len(joinLog) < MaxJoinCalls
    /\ IF msg.event # EventRejoinChannels \/ msg.account \notin JoinAccounts
       THEN /\ joinLog' = Append(joinLog, JoinEntry(msg.event, msg.account, brJoined, NoJoin))
            /\ UNCHANGED brJoined
       ELSE LET r == joinChannels(msg.account, order,
                                  rejoinExists(brJoined[msg.account]), failing)
                after == [brJoined EXCEPT ![msg.account] = r.exists]
            IN  /\ brJoined' = after
                /\ joinLog' = Append(joinLog,
                                     JoinEntry(msg.event, msg.account, after, r))

JoinInit ==
    /\ RetryIdle
    /\ GwIdle
    /\ RelayIdle
    /\ EchoIdle /\ MediaIdle /\ AttachIdle /\ LifeIdle
    /\ SerialIdle /\ BpIdle /\ Ext3Idle
    /\ brJoined = [acc \in JoinAccounts |-> {}]
    /\ joinLog = <<>>

\* the control events the router may receive
ControlMsgs ==
    { [account |-> acc, event |-> ev] :
        acc \in JoinAccounts \cup {"mastodon.d"},
        ev \in {EventRejoinChannels, EventFailure} }

JoinNext ==
    \/ \E acc \in JoinAccounts :
         \E order \in MapOrders(BridgeChannels(acc)) :
           \E failing \in SUBSET BridgeChannels(acc) :
             JoinChannels(acc, order, failing)
    \/ \E msg \in ControlMsgs :
         \E order \in MapOrders(BridgeChannels(
                         IF msg.account \in JoinAccounts THEN msg.account
                         ELSE "xmpp.x")) :
           \E failing \in SUBSET BridgeChannels("matrix.m") :
             handleEventRejoinChannels(msg, order, failing)

SpecJoin ==
    JoinInit
    /\ [][JoinNext /\ UNCHANGED <<retryVars, gwVars, relayVars, echoVars, mediaVars,
                                  attachVars, lifeVars, serialVars, bpVars,
                                  ext3Vars>>]_vars

\* the rejoin-channels events handled for a bridge of the gateways
Rejoins ==
    { i \in 1..Len(joinLog) :
        joinLog[i].kind = EventRejoinChannels /\ joinLog[i].account \in JoinAccounts }

\* C26: handling rejoin-channels for the account X first replaces the joined
\* set of X by the empty set and then joins the configured rooms of X: what
\* is joined afterwards was joined by this call; if every join succeeds,
\* JoinChannel was called once for every configured channel and the joined
\* set is exactly the set of the configured channel IDs of X; and the joined
\* set of every bridge of another account is unchanged.
C26_RejoinResetsAndJoins ==
    \A i \in Rejoins :
        LET e == joinLog[i]
            X == e.account
        IN  /\ e.after[X] \subseteq Range(e.calls)
            /\ ~e.err =>
                 /\ Range(e.calls) = BridgeChannels(X)
                 /\ Len(e.calls) = Cardinality(BridgeChannels(X))
                 /\ e.after[X] = BridgeChannels(X)
            /\ \A acc \in JoinAccounts \ {X} : e.after[acc] = e.before[acc]

\* C26 witness: the Matrix bridge had joined one of its two rooms (the join
\* of the other had failed) and the XMPP bridge both of its rooms, when the
\* rejoin-channels event for the Matrix account was handled and both joins
\* succeeded.
C26_Witness ==
    \E i \in Rejoins :
        /\ joinLog[i].account = "matrix.m"
        /\ Cardinality(joinLog[i].before["matrix.m"]) = 1
        /\ joinLog[i].before["xmpp.x"] = BridgeChannels("xmpp.x")
        /\ ~joinLog[i].err
        /\ Len(joinLog[i].calls) = 2
        /\ joinLog[i].after["matrix.m"] = BridgeChannels("matrix.m")

\* the calls of Bridge.JoinChannels
DirectJoins == { i \in 1..Len(joinLog) : joinLog[i].kind = "JoinChannels" }

\* C27: JoinChannels never calls JoinChannel for a channel ID that is in the
\* joined set already; and when JoinChannels is called twice in a row, every
\* join succeeding and the joined set not cleared in between, the second
\* call makes no call of JoinChannel and changes nothing, so that, starting
\* from an empty joined set, exactly one JoinChannel per configured room is
\* issued in total.
C27_JoinChannelsIdempotent ==
    /\ \A i \in DirectJoins :
         Range(joinLog[i].calls) \cap joinLog[i].before[joinLog[i].account] = {}
    /\ \A i \in DirectJoins :
         (/\ i + 1 \in DirectJoins
          /\ joinLog[i + 1].account = joinLog[i].account
          /\ ~joinLog[i].err /\ ~joinLog[i + 1].err) =>
             LET X == joinLog[i].account
                 total == joinLog[i].calls \o joinLog[i + 1].calls
             IN  /\ joinLog[i + 1].calls = <<>>
                 /\ joinLog[i + 1].after = joinLog[i + 1].before
                 /\ joinLog[i].before[X] = {} =>
                      /\ Range(total) = BridgeChannels(X)
                      /\ Len(total) = Cardinality(BridgeChannels(X))

\* C27 witness: JoinChannels of the Matrix bridge was called twice in a row
\* from an empty joined set; the first call joined both rooms, the second
\* made no call.
C27_Witness ==
    \E i \in DirectJoins :
        /\ i + 1 \in DirectJoins
        /\ joinLog[i].account = "matrix.m" /\ joinLog[i + 1].account = "matrix.m"
        /\ joinLog[i].before["matrix.m"] = {}
        /\ ~joinLog[i].err /\ ~joinLog[i + 1].err
        /\ Len(joinLog[i].calls) = 2
        /\ joinLog[i + 1].calls = <<>>


(***************************************************************************)
(* Concurrent Sends of one Matrix bridge.  Bmatrix.Send takes no lock of   *)
(* its own: the m.room.member state event is sent directly, and each of    *)
(* the other backend requests is wrapped in retry, which holds rateMutex   *)
(* from its Lock to its return.                                            *)
(***************************************************************************)
\* the backend requests of one Send, in order: a text message, or a message
\* with one file (comment, media upload, file event)
SendRequests(kind, spoof) ==
    (IF spoof THEN <<"m.room.member">> ELSE <<>>)
      \o (IF kind = "file" THEN <<"comment", "upload", "file">> ELSE <<"text">>)

\* the tasks that have issued a request of their Send and have more to issue
MidSend == { u \in Tasks : sendDone[u] > 0 /\ sendPlan[u] # <<>> }

\* the record of a backend request at the moment it is issued
Request(t, kind) ==
    [task |-> t, kind |-> kind, holder |-> rateMutex, during |-> MidSend \ {t}]

\* the answers of the backend to a request: the rate-limit signal or a refusal
SerialErrors == { e \in BackendErrors : e.http /\ e.parsable }

\* Bmatrix.Send is called on task t
SendBegin(t, kind) ==
    /\ pc[t] = "idle"
    /\ sendPlan[t] = <<>>
    /\ opsLeft > 0
    /\ opsLeft' = opsLeft - 1
    /\ sendPlan' = [sendPlan EXCEPT
                      ![t] = SendRequests(kind, GetBool("matrix.m", "SpoofUsername"))]
    /\ sendDone' = [sendDone EXCEPT ![t] = 0]
    /\ UNCHANGED <<rateMutex, pc, op, calls, succ, limited, backoff, slept, lastErr,
                   result, RoomMap, lastReq>>

\* b.mc.SendStateEvent: the request is made outside retry
SendStateEvent(t) ==
    /\ pc[t] = "idle"
    /\ sendPlan[t] # <<>>
    /\ Head(sendPlan[t]) = "m.room.member"
    /\ lastReq' = Request(t, Head(sendPlan[t]))
    /\ sendDone' = [sendDone EXCEPT ![t] = @ + 1]
    /\ sendPlan' = [sendPlan EXCEPT ![t] = Tail(@)]
    /\ UNCHANGED retryVars

\* Send enters retry for its next request
SendCall(t) ==
    /\ sendPlan[t] # <<>>
    /\ Head(sendPlan[t]) # "m.room.member"
    /\ retryEnter(t, "Send")
    /\ UNCHANGED <<opsLeft, serialVars>>

\* b.rateMutex.Lock() returns
SendLock(t) == retryLock(t) /\ UNCHANGED serialVars

\* f() is invoked inside retry: the request leaves
SendInvoke(t) ==
    /\ retryInvoke(t)
    /\ lastReq' = Request(t, Head(sendPlan[t]))
    /\ sendDone' = [sendDone EXCEPT ![t] = @ + 1]
    /\ UNCHANGED sendPlan

\* the backend answers, or the sleep after a rate limit is over
SendAnswer(t) ==
    /\ \/ retryReturnNil(t)
       \/ \E err \in SerialErrors : retryError(t, err)
       \/ retryWake(t)
    /\ UNCHANGED serialVars

\* retry returned: Send goes on to its next request or returns (a failed
\* upload ends handleUploadFile)
SendReturn(t) ==
    /\ retryLeave(t)
    /\ LET rest == IF Head(sendPlan[t]) = "upload" /\ result[t] # Nil THEN <<>>
                   ELSE Tail(sendPlan[t])
       IN  /\ sendPlan' = [sendPlan EXCEPT ![t] = rest]
           /\ sendDone' = [sendDone EXCEPT ![t] = IF rest = <<>> THEN 0 ELSE @]
    /\ UNCHANGED lastReq

SerialInit ==
    /\ RelayIdle
    /\ EchoIdle /\ MediaIdle /\ AttachIdle /\ LifeIdle
    /\ JoinIdle /\ BpIdle /\ Ext3Idle
    /\ gwInOut = <<>>
    /\ cfg \in { {}, {<<"matrix.m", "SpoofUsername">>} }
    /\ xmppConnected = TRUE
    /\ table = <<>>
    /\ envLog = <<>>
    /\ sendLog = <<>>
    /\ failsLeft = 0
    /\ rateMutex = NoTask
    /\ pc = [t \in Tasks |-> "idle"]
    /\ op = [t \in Tasks |-> "Send"]
    /\ calls = [t \in Tasks |-> 0]
    /\ succ = [t \in Tasks |-> 0]
    /\ limited = [t \in Tasks |-> 0]
    /\ backoff = [t \in Tasks |-> 0]
    /\ slept = [t \in Tasks |-> 0]
    /\ lastErr = [t \in Tasks |-> Nil]
    /\ result = [t \in Tasks |-> Nil]
    /\ RoomMap = {}
    /\ opsLeft = MaxOps
    /\ sendPlan = [t \in Tasks |-> <<>>]
    /\ sendDone = [t \in Tasks |-> 0]
    /\ lastReq = <<>>

SerialNext ==
    \E t \in Tasks :
        \/ \E kind \in {"text", "file"} : SendBegin(t, kind)
        \/ SendStateEvent(t)
        \/ SendCall(t)
        \/ SendLock(t)
        \/ SendInvoke(t)
        \/ SendAnswer(t)
        \/ SendReturn(t)

SpecSerial ==
    SerialInit
    /\ [][SerialNext /\ UNCHANGED <<gwVars, relayVars, echoVars, mediaVars, attachVars,
                                    lifeVars, joinVars, bpVars, ext3Vars>>]_vars

\* C24: every outbound Send holds the single serial lock of its adapter: of
\* two concurrent Sends of one Matrix adapter, every backend request of a
\* Send (the state event for the spoofed user name, the comment, the media
\* upload, the file event, the text message) is issued while the task of the
\* Send holds the lock, and while the other Send is not between two of its
\* own requests.
C24_SendHoldsSerialLock ==
    lastReq # <<>> =>
        /\ lastReq.holder = lastReq.task
        /\ lastReq.during = {}

\* C24 witness: the media upload of a Send was issued by the task that held
\* rateMutex, while no other Send was between two of its requests.
C24_Witness ==
    /\ lastReq # <<>>
    /\ lastReq.kind = "upload"
    /\ lastReq.holder = lastReq.task
    /\ lastReq.during = {}


(***************************************************************************)
(* The ingress channel under load.  Every reader publishes with the        *)
(* blocking send b.Remote <- rmsg: with room in the buffer the envelope is *)
(* placed at once, otherwise the task waits in the channel's queue of      *)
(* senders, which the runtime serves first come first served whenever the  *)
(* router receives.                                                        *)
(***************************************************************************)
\* the accounts whose readers publish to the channel
BpReaders == {"matrix.m", "xmpp.x", "mastodon.d"}

\* the user message number seq of the backend of an account
BpMsg(acc, seq) == [account |-> acc, seq |-> seq]

BpMsgs == { BpMsg(acc, seq) : acc \in BpReaders, seq \in 1..MaxEvents }

\* b.Remote <- rmsg
\* a faulty send: with the buffer full the envelope is given up (a select
\* with a default case)
chanSend_DropWhenFull(buf, sendq, msg) ==
    IF Len(buf) < MaxIngress
    THEN [buf |-> Append(buf, msg), sendq |-> sendq]
    ELSE [buf |-> buf, sendq |-> sendq]

\* b.Remote <- rmsg: the envelope goes into the buffer, or the sender waits
chanSend(buf, sendq, msg) ==
    IF Len(buf) < MaxIngress
    THEN [buf |-> Append(buf, msg), sendq |-> sendq]
    ELSE [buf |-> buf, sendq |-> Append(sendq, msg)]

\* <-r.Message: the head of the buffer is received and the envelope of the
\* sender that waited longest takes the free place
chanRecv(buf, sendq) ==
    IF sendq = <<>>
    THEN [buf |-> Tail(buf), sendq |-> sendq]
    ELSE [buf |-> Append(Tail(buf), Head(sendq)), sendq |-> Tail(sendq)]

\* the reader of the account waits in b.Remote <- rmsg
BpBlocked(acc) == \E i \in 1..Len(bpSendq) : bpSendq[i].account = acc

\* a reader takes the next event of its backend: an event of the bridge's own
\* user is left out, any other message is published (Bmatrix.handleMessageEvent,
\* Bxmpp.handleXMPP, Bmastodon.handleSendRemoteStatus)
ReaderEvent(acc, own) ==
    /\ ~BpBlocked(acc)
    /\ bpSeen[acc] < MaxEvents
    /\ bpSeen' = [bpSeen EXCEPT ![acc] = @ + 1]
    /\ IF own
       THEN UNCHANGED <<bpBuf, bpSendq, bpDecided>>
       ELSE LET msg == BpMsg(acc, bpSeen[acc] + 1)
                ch == chanSend(bpBuf, bpSendq, msg)
            IN  /\ bpDecided' = bpDecided \cup {msg}
                /\ bpBuf' = ch.buf
                /\ bpSendq' = ch.sendq
    /\ UNCHANGED bpTaken

\* the router receives the next envelope
RouterTake ==
    /\ bpBuf # <<>>
    /\ bpTaken' = [bpTaken EXCEPT ![Head(bpBuf)] = @ + 1]
    /\ LET ch == chanRecv(bpBuf, bpSendq)
       IN  /\ bpBuf' = ch.buf
           /\ bpSendq' = ch.sendq
    /\ UNCHANGED <<bpSeen, bpDecided>>

BpInit ==
    /\ RetryIdle
    /\ GwIdle
    /\ RelayIdle
    /\ EchoIdle /\ MediaIdle /\ AttachIdle /\ LifeIdle
    /\ JoinIdle /\ SerialIdle /\ Ext3Idle
    /\ bpBuf = <<>>
    /\ bpSendq = <<>>
    /\ bpSeen = [acc \in BpReaders |-> 0]
    /\ bpDecided = {}
    /\ bpTaken = [msg \in BpMsgs |-> 0]

\* the rest of the program does not take part
BpOthers == <<retryVars, gwVars, relayVars, echoVars, mediaVars, attachVars, lifeVars,
              joinVars, serialVars, ext3Vars>>

BpNext ==
    \/ \E acc \in BpReaders : \E own \in BOOLEAN : ReaderEvent(acc, own)
    \/ RouterTake

\* the readers and the router, the router task being scheduled whenever an
\* envelope waits for it
FairIngress ==
    /\ BpInit
    /\ [][BpNext /\ UNCHANGED BpOthers]_vars
    /\ WF_vars(RouterTake /\ UNCHANGED BpOthers)

\* how often a message occurs in a queue
Occurrences(q, msg) == Cardinality({i \in 1..Len(q) : q[i] = msg})

\* the message is on the channel or the router has received it
BpPlaced(msg) == Occurrences(bpBuf, msg) + bpTaken[msg]

\* no message is lost or doubled: a message the reader decided to publish is
\* exactly once in the sender queue, in the buffer or with the router, and
\* no other message is anywhere; a sender waits only while the buffer is
\* full, and a waiting reader has not gone on to its next event
BpExactlyOnce ==
    /\ \A msg \in BpMsgs :
         Occurrences(bpSendq, msg) + BpPlaced(msg) = IF msg \in bpDecided THEN 1 ELSE 0
    /\ bpSendq # <<>> => Len(bpBuf) = MaxIngress
    /\ \A i \in 1..Len(bpSendq) : bpSendq[i].seq = bpSeen[bpSendq[i].account]

\* C21: back-pressure never loses a user message: while the ingress channel
\* is full, the publish of a reader blocks its task until the router
\* receives an envelope, and every message a reader decided to publish is
\* eventually placed on the channel, exactly once.
C21_BackPressureLosesNothing ==
    /\ []BpExactlyOnce
    /\ \A msg \in BpMsgs : (msg \in bpDecided) ~> (BpPlaced(msg) = 1)

\* C21 witness: the buffer is full, the readers of two accounts wait in
\* their publish, and the router has already received the second message of
\* a reader.
C21_Witness ==
    /\ Len(bpBuf) = MaxIngress
    /\ Len(bpSendq) >= 2
    /\ \E msg \in BpMsgs : bpTaken[msg] = 1 /\ msg.seq = 2


\* the calls of JoinChannel of a log entry that returned nil: all of them,
\* or all but the last when the entry ended with an error
JoinedBy(e) ==
    Range(IF e.err THEN SubSeq(e.calls, 1, Len(e.calls) - 1) ELSE e.calls)

\* the entries of the log in which br.Joined of the account was cleared
ClearedAt(acc) == { i \in Rejoins : joinLog[i].account = acc }

\* the entries of the log since br.Joined of the account was last cleared
SinceCleared(acc) ==
    { i \in 1..Len(joinLog) :
        /\ joinLog[i].account = acc
        /\ \A j \in ClearedAt(acc) : j <= i }

MaxNickCalls == 3

MaxNickTime == 4

\* 10*time.Minute, in units of five minutes
TenMinutes == 2

\* the users of the rooms
Mxid(localpart, server) == [localpart |-> localpart, server |-> server]

Mxids == { Mxid("a", "x"), Mxid("b", "x"), Mxid("c", "x"), Mxid("a", "y") }

\* id.UserID as a string, and its Localpart
MxidString(mxid) == "@" \o mxid.localpart \o ":" \o mxid.server

Localpart(mxid) == mxid.localpart

\* the display names the users choose
DisplayNames == {"n", "m"}

\* fmt.Sprintf("%s (%s)", displayName, mxid)
WithMxid(displayName, mxid) == displayName \o " (" \o MxidString(mxid) \o ")"

NicknameCacheEntry(displayName, lastUpdated) ==
    [displayName |-> displayName, lastUpdated |-> lastUpdated]

\* a faulty test of age: an entry is old after twenty minutes
expired_AfterTwenty(now, v) == now - v.lastUpdated > 2 * TenMinutes

\* now.Sub(v.lastUpdated) > 10*time.Minute
expired(now, v) == now - v.lastUpdated > TenMinutes

\* Bmatrix.cacheDisplayName(mxid, displayName) at the time now: the map
\* afterwards and the name returned
cacheDisplayName(map, mxid, displayName, now) ==
    LET conflict == \E localpart \in DOMAIN map : map[localpart].displayName = displayName
        scanned == [localpart \in DOMAIN map |->
                      IF map[localpart].displayName = displayName
                      THEN [map[localpart] EXCEPT !.displayName = WithMxid(displayName, mxid)]
                      ELSE map[localpart]]
        toDelete == { localpart \in DOMAIN map : expired(now, map[localpart]) }
        name == IF conflict THEN WithMxid(displayName, mxid) ELSE displayName
    IN  [map |-> [localpart \in (DOMAIN map \ toDelete) \cup {Localpart(mxid)} |->
                    IF localpart = Localpart(mxid)
                    THEN NicknameCacheEntry(name, now)
                    ELSE scanned[localpart]],
         ret |-> name]

\* a call of cacheDisplayName
CacheDisplayName(mxid, displayName) ==
    /\ nickCalls < MaxNickCalls
    /\ nickCalls' = nickCalls + 1
    /\ LET r == cacheDisplayName(NicknameMap, mxid, displayName, nickNow)
       IN  /\ NicknameMap' = r.map
           /\ nickCall' = [mxid |-> mxid, displayName |-> displayName, now |-> nickNow,
                           before |-> NicknameMap, after |-> r.map, ret |-> r.ret]
    /\ UNCHANGED nickNow

\* five minutes pass
NickTick ==
    /\ nickNow < MaxNickTime
    /\ nickNow' = nickNow + 1
    /\ UNCHANGED <<NicknameMap, nickCall, nickCalls>>

\* the parts of the program modelled before the caches
preNickVars == <<retryVars, gwVars, relayVars, echoVars, mediaVars, attachVars, lifeVars,
                 joinVars, serialVars, bpVars>>

PreNickIdle ==
    /\ RetryIdle /\ GwIdle /\ RelayIdle
    /\ EchoIdle /\ MediaIdle /\ AttachIdle /\ LifeIdle
    /\ JoinIdle /\ SerialIdle /\ BpIdle

\* Bmatrix.New: NicknameMap = make(map[string]NicknameCacheEntry)
NickInit ==
    /\ PreNickIdle /\ Ext3IdleBut("nick")
    /\ NicknameMap = <<>>
    /\ nickNow = 0
    /\ nickCall = <<>>
    /\ nickCalls = 0

NickNext ==
    \/ \E mxid \in Mxids : \E displayName \in DisplayNames :
         CacheDisplayName(mxid, displayName)
    \/ NickTick

SpecNick == NickInit /\ [][NickNext /\ UNCHANGED preNickVars /\ Ext3UnchangedBut("nick")]_vars

\* the cached users other than the caller that had the display name of the
\* last call
Clashing ==
    { localpart \in DOMAIN nickCall.before \ {Localpart(nickCall.mxid)} :
        nickCall.before[localpart].displayName = nickCall.displayName }

\* C34: when a display name is cached for a user while a different user has
\* the same display name cached, both entries are renamed by appending an
\* identifier, each entry its own user's, so that afterwards the two users
\* have different cached display names.
C34_ConflictRenamesBothApart ==
    nickCall # <<>> =>
        \A other \in Clashing \cap DOMAIN nickCall.after :
            LET mine == nickCall.after[Localpart(nickCall.mxid)].displayName
                theirs == nickCall.after[other].displayName
            IN  /\ mine = WithMxid(nickCall.displayName, nickCall.mxid)
                /\ theirs # nickCall.displayName
                /\ theirs # mine

\* C34 witness: a display name was cached for a user while another user had
\* it, and both entries have been renamed.
C34_Witness ==
    /\ nickCall # <<>>
    /\ \E other \in Clashing \cap DOMAIN nickCall.after :
         /\ nickCall.after[other].displayName # nickCall.displayName
         /\ nickCall.after[Localpart(nickCall.mxid)].displayName # nickCall.displayName

\* C35: immediately after every call of cacheDisplayName the cache holds no
\* entry, other than the one just written, whose last update lies more than
\* ten minutes before the time of the call.
C35_OldEntriesEvicted ==
    nickCall # <<>> =>
        \A localpart \in DOMAIN nickCall.after \ {Localpart(nickCall.mxid)} :
            nickCall.now - nickCall.after[localpart].lastUpdated <= TenMinutes

\* C35 witness: before the call the cache had an entry older than ten
\* minutes, which is gone, and an entry exactly ten minutes old, which stays.
C35_Witness ==
    /\ nickCall # <<>>
    /\ \E old, kept \in DOMAIN nickCall.before \ {Localpart(nickCall.mxid)} :
         /\ nickCall.now - nickCall.before[old].lastUpdated > TenMinutes
         /\ old \notin DOMAIN nickCall.after
         /\ nickCall.now - nickCall.before[kept].lastUpdated = TenMinutes
         /\ kept \in DOMAIN nickCall.after

\* C40: calling cacheDisplayName again for a user who is in the cache with
\* the same display name, while no other cached user has that name, returns
\* and stores the display name unchanged.
C40_RecachingIdempotent ==
    (/\ nickCall # <<>>
     /\ Localpart(nickCall.mxid) \in DOMAIN nickCall.before
     /\ nickCall.before[Localpart(nickCall.mxid)].displayName = nickCall.displayName
     /\ Clashing = {})
    => /\ nickCall.ret = nickCall.displayName
       /\ nickCall.after[Localpart(nickCall.mxid)].displayName = nickCall.displayName

\* C40 witness: a user is cached a second time, with a display name that
\* differs from the cached one and that no other user has, and the new name
\* is stored as it is.
C40_Witness ==
    /\ nickCall # <<>>
    /\ Localpart(nickCall.mxid) \in DOMAIN nickCall.before
    /\ nickCall.before[Localpart(nickCall.mxid)].displayName # nickCall.displayName
    /\ Clashing = {}
    /\ nickCall.ret = nickCall.displayName


(***************************************************************************)
(* The two locks of the Matrix bridge: the read/write lock embedded in     *)
(* Bmatrix, which guards RoomMap and NicknameMap, and rateMutex, which     *)
(* retry holds around every request.  A call is the sequence of its lock   *)
(* operations and backend requests; the tasks interleave step by step.     *)
(* sync.RWMutex: a Lock() that waits for the readers keeps new readers out.*)
(***************************************************************************)
\* the calls started in one run
MaxLockOps == 4

LockOps == {"JoinChannel", "Send", "getRoomID", "getDisplayName", "cacheDisplayName"}

\* Bmatrix.retry(f): rateMutex.Lock, f, deferred rateMutex.Unlock
retryPlan(f) == <<"rateMutex.Lock">> \o f \o <<"rateMutex.Unlock">>

\* b.Lock(); write to the map; b.Unlock()
writePlan == <<"Lock", "Lock.acquired", "Unlock">>

\* b.RLock(); read the map; b.RUnlock()
readPlan == <<"RLock", "RUnlock">>

\* a faulty Send: the read lock of the room lookup is kept until Send returns
LockPlan_ReadLockKept(call, branch) ==
    CASE call = "JoinChannel" ->
           retryPlan(<<"request">> \o (IF branch THEN writePlan ELSE <<>>))
      [] call = "Send" ->
           <<"RLock">> \o retryPlan(<<"request">>)
               \o (IF branch THEN retryPlan(<<"request">>) ELSE <<>>) \o <<"RUnlock">>
      [] call = "getRoomID" -> readPlan
      [] call = "getDisplayName" ->
           readPlan \o (IF branch THEN <<"request">> \o writePlan ELSE <<>>)
      [] call = "cacheDisplayName" -> writePlan

\* the steps of a call.  branch: JoinRoom succeeded (JoinChannel), a second
\* request follows the first (Send), the user is not cached (getDisplayName)
LockPlan(call, branch) ==
    CASE call = "JoinChannel" ->
           retryPlan(<<"request">> \o (IF branch THEN writePlan ELSE <<>>))
      [] call = "Send" ->
           readPlan \o retryPlan(<<"request">>)
               \o (IF branch THEN retryPlan(<<"request">>) ELSE <<>>)
      [] call = "getRoomID" -> readPlan
      [] call = "getDisplayName" ->
           readPlan \o (IF branch THEN <<"request">> \o writePlan ELSE <<>>)
      [] call = "cacheDisplayName" -> writePlan

\* the next step of task t does not have to wait
StepEnabled(t) ==
    /\ lkPlan[t] # <<>>
    /\ LET step == Head(lkPlan[t])
       IN  CASE step = "rateMutex.Lock" -> \A u \in LockTasks : "rateMutex" \notin lkHeld[u]
             [] step = "RLock" ->
                  lkPending = {} /\ \A u \in LockTasks : "w" \notin lkHeld[u]
             [] step = "Lock.acquired" ->
                  \A u \in LockTasks : lkHeld[u] \cap {"r", "w"} = {}
             [] OTHER -> TRUE

\* a task calls into the bridge
LockStart(t, call, branch) ==
    /\ lkPlan[t] = <<>>
    /\ lkOps < MaxLockOps
    /\ lkOps' = lkOps + 1
    /\ lkPlan' = [lkPlan EXCEPT ![t] = LockPlan(call, branch)]
    /\ UNCHANGED <<lkHeld, lkPending>>

\* a task takes its next step
LockStep(t) ==
    /\ StepEnabled(t)
    /\ LET step == Head(lkPlan[t])
       IN  /\ lkPlan' = [lkPlan EXCEPT ![t] = Tail(@)]
           /\ lkHeld' = [lkHeld EXCEPT ![t] =
                CASE step = "rateMutex.Lock" -> @ \cup {"rateMutex"}
                  [] step = "rateMutex.Unlock" -> @ \ {"rateMutex"}
                  [] step = "RLock" -> @ \cup {"r"}
                  [] step = "RUnlock" -> @ \ {"r"}
                  [] step = "Lock.acquired" -> @ \cup {"w"}
                  [] step = "Unlock" -> @ \ {"w"}
                  [] OTHER -> @]
           /\ lkPending' = CASE step = "Lock" -> lkPending \cup {t}
                             [] step = "Lock.acquired" -> lkPending \ {t}
                             [] OTHER -> lkPending
    /\ UNCHANGED lkOps

LockInit ==
    /\ PreNickIdle /\ Ext3IdleBut("lock")
    /\ lkPlan = [t \in LockTasks |-> <<>>]
    /\ lkHeld = [t \in LockTasks |-> {}]
    /\ lkPending = {}
    /\ lkOps = 0

LockNext ==
    \/ \E t \in LockTasks : \E call \in LockOps : \E branch \in BOOLEAN :
         LockStart(t, call, branch)
    \/ \E t \in LockTasks : LockStep(t)

SpecLock == LockInit /\ [][LockNext /\ UNCHANGED preNickVars /\ Ext3UnchangedBut("lock")]_vars

\* the tasks about to enter retry
AtRateLock == { t \in LockTasks : lkPlan[t] # <<>> /\ Head(lkPlan[t]) = "rateMutex.Lock" }

\* C36: no task waits for the rate lock while it holds or requests the
\* read/write lock, none enters retry while it is inside retry, and as long
\* as some call is unfinished some task can take a step.
C36_NoDeadlockOnTwoLocks ==
    /\ \A t \in AtRateLock : lkHeld[t] = {} /\ t \notin lkPending
    /\ (\E t \in LockTasks : lkPlan[t] # <<>>) => \E t \in LockTasks : StepEnabled(t)

\* C36 witness: a JoinChannel inside retry waits in Lock() for a reader to
\* leave while a third task waits for the rate lock.
C36_Witness ==
    \E j, r, s \in LockTasks :
        /\ "rateMutex" \in lkHeld[j] /\ j \in lkPending /\ ~StepEnabled(j)
        /\ "r" \in lkHeld[r]
        /\ s \in AtRateLock /\ ~StepEnabled(s)


(***************************************************************************)
(* Gateway.handleExtractNicks and extractNick.  A regular expression is    *)
(* one of three shapes: one that does not compile, a literal, or a literal *)
(* prefix, one captured character and a literal suffix.                    *)
(***************************************************************************)
\* the pairs of one ExtractNicks setting
MaxPairs == 3

BadRegexp == [kind |-> "bad", pre |-> <<>>, post |-> <<>>]

Literal(lit) == [kind |-> "literal", pre |-> lit, post |-> <<>>]

OneGroup(pre, post) == [kind |-> "group", pre |-> pre, post |-> post]

SearchRegexps == { BadRegexp, Literal(<<"b">>), Literal(<<"a">>) }

ExtractRegexps == { BadRegexp, OneGroup(<<"<">>, <<">">>), Literal(<<"<", "a", ">">>) }

NickPairs == SearchRegexps \X ExtractRegexps

PairLists == UNION { [1..n -> NickPairs] : n \in 0..MaxPairs }

NickUsernames == { <<"b", "o", "t">>, <<"a">> }

NickTexts == { <<"<", "b", ">", " ", "<", "a", ">">>, <<"<", "a", ">", " ", "x">>, <<"x">> }

\* regexp.Compile fails
CompileError(re) == re.kind = "bad"

\* the string s has the literal lit at position i
LitAt(s, i, lit) ==
    /\ i + Len(lit) - 1 <= Len(s)
    /\ \A j \in 1..Len(lit) : s[i + j - 1] = lit[j]

\* the regular expression matches at position i of s
MatchAt(re, s, i) ==
    IF re.kind = "group"
    THEN /\ LitAt(s, i, re.pre)
         /\ i + Len(re.pre) <= Len(s)
         /\ LitAt(s, i + Len(re.pre) + 1, re.post)
    ELSE LitAt(s, i, re.pre)

MatchPositions(re, s) == { i \in 1..Len(s) : MatchAt(re, s, i) }

\* Regexp.MatchString
MatchString(re, s) == MatchPositions(re, s) # {}

\* Regexp.FindAllStringSubmatch(text, 1): of the leftmost match, the
\* matched string and the captured groups
FindSubmatch(re, text) ==
    IF MatchPositions(re, text) = {} THEN <<>>
    ELSE LET i == CHOOSE p \in MatchPositions(re, text) :
                      \A q \in MatchPositions(re, text) : p <= q
             n == Len(re.pre) + Len(re.post) + (IF re.kind = "group" THEN 1 ELSE 0)
             whole == SubSeq(text, i, i + n - 1)
         IN  IF re.kind = "group"
             THEN <<whole, <<text[i + Len(re.pre)]>>>>
             ELSE <<whole>>

\* strings.Replace(text, old, "", 1)
RemoveFirst(text, old) ==
    LET at == { i \in 1..Len(text) : LitAt(text, i, old) }
    IN  IF at = {} \/ old = <<>> THEN text
        ELSE LET i == CHOOSE p \in at : \A q \in at : p <= q
             IN  SubSeq(text, 1, i - 1) \o SubSeq(text, i + Len(old), Len(text))

\* extractNick(search, extract, username, text)
extractNick(search, extract, username, text) ==
    IF CompileError(search)
    THEN [username |-> username, text |-> text, err |-> TRUE]
    ELSE IF MatchString(search, username)
    THEN IF CompileError(extract)
         THEN [username |-> username, text |-> text, err |-> TRUE]
         ELSE LET res == FindSubmatch(extract, text)
              IN  IF Len(res) = 2
                  THEN [username |-> res[2], text |-> RemoveFirst(text, res[1]),
                        err |-> FALSE]
                  ELSE [username |-> username, text |-> text, err |-> FALSE]
    ELSE [username |-> username, text |-> text, err |-> FALSE]

\* a faulty loop: the error is logged and the next pair is applied
RECURSIVE handleExtractNicks_NoBreak(_, _, _, _)
handleExtractNicks_NoBreak(pairs, i, username, text) ==
    IF i > Len(pairs)
    THEN [username |-> username, text |-> text, tried |-> Len(pairs)]
    ELSE LET r == extractNick(pairs[i][1], pairs[i][2], username, text)
         IN  handleExtractNicks_NoBreak(pairs, i + 1, r.username, r.text)

\* the loop of handleExtractNicks from pair i on: the username and the text
\* of the message afterwards, and the number of pairs tried
RECURSIVE handleExtractNicks(_, _, _, _)
handleExtractNicks(pairs, i, username, text) ==
    IF i > Len(pairs)
    THEN [username |-> username, text |-> text, tried |-> Len(pairs)]
    ELSE LET r == extractNick(pairs[i][1], pairs[i][2], username, text)
         IN  IF r.err
             THEN [username |-> r.username, text |-> r.text, tried |-> i]
             ELSE handleExtractNicks(pairs, i + 1, r.username, r.text)

\* Gateway.handleExtractNicks(msg)
HandleExtractNicks(username, text) ==
    /\ enCall' = [username |-> username, text |-> text,
                  after |-> handleExtractNicks(enPairs, 1, username, text)]
    /\ UNCHANGED enPairs

\* br.GetStringSlice2D("ExtractNicks")
ExtractInit ==
    /\ PreNickIdle /\ Ext3IdleBut("extract")
    /\ enPairs \in PairLists
    /\ enCall = <<>>

ExtractNext ==
    \E username \in NickUsernames : \E text \in NickTexts :
        HandleExtractNicks(username, text)

SpecExtract ==
    ExtractInit /\ [][ExtractNext /\ UNCHANGED preNickVars /\ Ext3UnchangedBut("extract")]_vars

\* the username and the text after the first k pairs, applied one by one
RECURSIVE AfterPairs(_)
AfterPairs(k) ==
    IF k = 0 THEN [username |-> enCall.username, text |-> enCall.text]
    ELSE LET prev == AfterPairs(k - 1)
             r == extractNick(enPairs[k][1], enPairs[k][2], prev.username, prev.text)
         IN  [username |-> r.username, text |-> r.text]

\* a compilation fails in pair k
FailsAt(k) ==
    LET prev == AfterPairs(k - 1)
    IN  \/ CompileError(enPairs[k][1])
        \/ MatchString(enPairs[k][1], prev.username) /\ CompileError(enPairs[k][2])

FirstFailure == { k \in 1..Len(enPairs) : FailsAt(k) /\ \A j \in 1..(k - 1) : ~FailsAt(j) }

\* C32: the pairs are applied in order; when a regular expression of pair k
\* fails to compile, pair k changes nothing, no later pair is applied, and
\* the username and the text are those the pairs before k produced.
C32_CompileFailureStopsThePairs ==
    enCall # <<>> =>
        /\ \A k \in FirstFailure :
             /\ enCall.after.tried = k
             /\ enCall.after.username = AfterPairs(k - 1).username
             /\ enCall.after.text = AfterPairs(k - 1).text
        /\ FirstFailure = {} =>
             /\ enCall.after.tried = Len(enPairs)
             /\ enCall.after.username = AfterPairs(Len(enPairs)).username
             /\ enCall.after.text = AfterPairs(Len(enPairs)).text

\* C32 witness: the first pair extracted a nick, the second failed to compile
\* its extract expression, and the third would have extracted another nick.
C32_Witness ==
    /\ enCall # <<>>
    /\ \E k \in FirstFailure :
         /\ k > 1 /\ k < Len(enPairs)
         /\ ~CompileError(enPairs[k][1])
         /\ AfterPairs(k - 1).username # enCall.username
         /\ AfterPairs(Len(enPairs)).username # AfterPairs(k - 1).username
         /\ enCall.after.username = AfterPairs(k - 1).username


(***************************************************************************)
(* The avatar maps of the XMPP bridge.  The reader task (handleXMPP) reads *)
(* and writes avatarAvailability and reads avatarMap; the router task      *)
(* writes avatarMap in Send (cacheAvatar).  An access of a map is the step *)
(* that enters it and the step that leaves it, so that two tasks can be    *)
(* inside at once.  Neither task takes the lock of the bridge around these *)
(* accesses: locked is FALSE in every access.                              *)
(***************************************************************************)
AvatarUsers == {"room@muc/u1", "room@muc/u2", "room@muc/u3"}

\* the hash handleFiles gave the avatar: none without media server
AvatarHashes == {"", "sha1"}

\* an access of avatarMap in progress
Access(at, user, sha) == [pc |-> at, user |-> user, sha |-> sha, locked |-> FALSE]

\* the router writes avatarMap while the reader is inside an access of it
AvatarRace ==
    /\ avRouter.pc = "cacheAvatar"
    /\ avRouter.sha # ""
    /\ avReader.pc \in {"getAvatar", "handleDownloadAvatar"}

\* what a read of avatarMap can see: the map, or, in a race with the write
\* of cacheAvatar, also the map with that write
Readable ==
    {avatarMap} \cup
    (IF AvatarRace THEN {[u \in DOMAIN avatarMap \cup {avRouter.user} |->
                            IF u = avRouter.user THEN avRouter.sha ELSE avatarMap[u]]}
     ELSE {})

\* handleXMPP, a groupchat message of user u: the avatar is requested when
\* the user is new, and looked up in avatarMap when its data has arrived
handleXMPPChat(u) ==
    /\ ~avCrashed
    /\ avReader.pc = "idle"
    /\ IF u \notin DOMAIN avatarAvailability
       THEN /\ avatarAvailability' = [v \in DOMAIN avatarAvailability \cup {u} |->
                                        IF v = u THEN FALSE ELSE avatarAvailability[v]]
            /\ avRequested' = avRequested \cup {u}
            /\ UNCHANGED avReader
       ELSE /\ avReader' = IF avatarAvailability[u] THEN Access("getAvatar", u, "")
                           ELSE avReader
            /\ UNCHANGED <<avatarAvailability, avRequested>>
    /\ UNCHANGED <<avatarMap, avRouter, avPending, avCrashed>>

\* getAvatar returns
getAvatarReturn ==
    /\ ~avCrashed
    /\ avReader.pc = "getAvatar"
    /\ avReader' = NoAccess
    /\ UNCHANGED <<avatarMap, avatarAvailability, avRouter, avRequested, avPending,
                   avCrashed>>

\* handleXMPP, avatar data of user u: handleDownloadAvatar looks the user up
handleDownloadAvatar(u) ==
    /\ ~avCrashed
    /\ avReader.pc = "idle"
    /\ u \in avRequested
    /\ avRequested' = avRequested \ {u}
    /\ avReader' = Access("handleDownloadAvatar", u, "")
    /\ UNCHANGED <<avatarMap, avatarAvailability, avRouter, avPending, avCrashed>>

\* handleDownloadAvatar returns: the avatar is published unless the user was
\* found in the map, and the avatar is marked available
handleDownloadAvatarReturn ==
    /\ ~avCrashed
    /\ avReader.pc = "handleDownloadAvatar"
    /\ \E seen \in Readable :
         avPending' = IF avReader.user \in DOMAIN seen THEN avPending
                      ELSE avPending \cup {avReader.user}
    /\ avatarAvailability' = [avatarAvailability EXCEPT ![avReader.user] = TRUE]
    /\ avReader' = NoAccess
    /\ UNCHANGED <<avatarMap, avRouter, avRequested, avCrashed>>

\* Bxmpp.Send of an avatar envelope: cacheAvatar is entered
cacheAvatarEnter(u, sha) ==
    /\ ~avCrashed
    /\ avRouter.pc = "idle"
    /\ u \in avPending
    /\ avPending' = avPending \ {u}
    /\ avRouter' = Access("cacheAvatar", u, sha)
    /\ UNCHANGED <<avatarMap, avatarAvailability, avReader, avRequested, avCrashed>>

\* cacheAvatar returns: the hash is in the map if there was one
cacheAvatarReturn ==
    /\ ~avCrashed
    /\ avRouter.pc = "cacheAvatar"
    /\ avatarMap' = IF avRouter.sha = "" THEN avatarMap
                    ELSE [u \in DOMAIN avatarMap \cup {avRouter.user} |->
                            IF u = avRouter.user THEN avRouter.sha ELSE avatarMap[u]]
    /\ avRouter' = NoAccess
    /\ UNCHANGED <<avatarAvailability, avReader, avRequested, avPending, avCrashed>>

\* the runtime finds a map read and a map write at the same time and stops
\* the program ("concurrent map read and map write")
AvatarCrash ==
    /\ ~avCrashed
    /\ AvatarRace
    /\ avCrashed' = TRUE
    /\ UNCHANGED <<avatarMap, avatarAvailability, avReader, avRouter, avRequested,
                   avPending>>

\* Bxmpp.New: both maps empty
AvatarInit ==
    /\ PreNickIdle /\ Ext3IdleBut("avatar")
    /\ avatarMap = <<>>
    /\ avatarAvailability = <<>>
    /\ avReader = NoAccess
    /\ avRouter = NoAccess
    /\ avRequested = {}
    /\ avPending = {}
    /\ avCrashed = FALSE

AvatarNext ==
    \/ \E u \in AvatarUsers : handleXMPPChat(u)
    \/ getAvatarReturn
    \/ \E u \in AvatarUsers : handleDownloadAvatar(u)
    \/ handleDownloadAvatarReturn
    \/ \E u \in AvatarUsers : \E sha \in AvatarHashes : cacheAvatarEnter(u, sha)
    \/ cacheAvatarReturn
    \/ AvatarCrash

SpecAvatar ==
    AvatarInit /\ [][AvatarNext /\ UNCHANGED preNickVars /\ Ext3UnchangedBut("avatar")]_vars

\* C33: no write of the avatar map by Send (cacheAvatar, on the router's
\* task) is concurrent with an unlocked access of the avatar maps by the
\* reader task.
C33_AvatarWriteExcludesReader ==
    AvatarRace => avRouter.locked /\ avReader.locked

\* C33 witness: cacheAvatar has stored a hash, and the reader looks an avatar
\* up while the router is outside Send.
C33_Witness ==
    /\ avatarMap # <<>>
    /\ avReader.pc = "getAvatar"
    /\ avRouter.pc = "idle"


(***************************************************************************)
(* The upload slots of the XMPP bridge (XEP-0363).  requestUploadSlot, on  *)
(* a background task, sends the slot request and then stores the file in   *)
(* httpUploadBuffer; the reader task looks the file up when the slot       *)
(* arrives and starts a background task that uploads and announces it.     *)
(***************************************************************************)
\* requestUploadSlot up to the return of b.xc.RawInformation: on an error
\* nothing is stored, otherwise the request is with the server
requestUploadSlot(id, err) ==
    /\ upFile[id].pc = "new"
    /\ upFile' = [upFile EXCEPT ![id].pc = IF err THEN "failed" ELSE "sent"]
    /\ upWire' = IF err THEN upWire ELSE upWire \cup {id}
    /\ UNCHANGED httpUploadBuffer

\* requestUploadSlot from there on: b.httpUploadBuffer[fileId] = entry
requestUploadSlotStore(id) ==
    /\ upFile[id].pc = "sent"
    /\ upFile' = [upFile EXCEPT ![id].pc = "stored"]
    /\ httpUploadBuffer' = httpUploadBuffer \cup {id}
    /\ UNCHANGED upWire

\* handleXMPP, case xmpp.Slot: the entry is looked up under the lock; without
\* an entry the slot is logged and skipped, with one the upload task starts
handleXMPPSlot(id) ==
    /\ id \in upWire
    /\ upWire' = upWire \ {id}
    /\ upFile' = IF id \in httpUploadBuffer
                 THEN [upFile EXCEPT ![id].lookup = "found", ![id].put = "running"]
                 ELSE [upFile EXCEPT ![id].lookup = "missing"]
    /\ UNCHANGED httpUploadBuffer

\* announceUploadedFile: the sharer message, then the OOB URL; a failed send
\* ends it
announceUploadedFile(sharerOk, oobOk) ==
    IF ~sharerOk THEN <<>>
    ELSE IF ~oobOk THEN <<"sharer">>
    ELSE <<"sharer", "oob">>

\* the upload task of the slot: HttpUpload, whose error is logged, and then
\* announceUploadedFile
slotUpload(id, ok, sharerOk, oobOk) ==
    /\ upFile[id].put = "running"
    /\ upFile' = [upFile EXCEPT ![id].put = IF ok THEN "ok" ELSE "failed",
                                ![id].announced = announceUploadedFile(sharerOk, oobOk)]
    /\ UNCHANGED <<httpUploadBuffer, upWire>>

\* Bxmpp.New: httpUploadBuffer = make(map[string]*UploadBufferEntry)
UploadInit ==
    /\ PreNickIdle /\ Ext3IdleBut("upload")
    /\ httpUploadBuffer = {}
    /\ upWire = {}
    /\ upFile = [id \in FileIds |-> NewFile]

UploadNext ==
    \/ \E id \in FileIds : \E err \in BOOLEAN : requestUploadSlot(id, err)
    \/ \E id \in FileIds : requestUploadSlotStore(id)
    \/ \E id \in FileIds : handleXMPPSlot(id)
    \/ \E id \in FileIds : \E ok, sharerOk, oobOk \in BOOLEAN :
         slotUpload(id, ok, sharerOk, oobOk)

SpecUpload ==
    UploadInit /\ [][UploadNext /\ UNCHANGED preNickVars /\ Ext3UnchangedBut("upload")]_vars

\* C37: every slot response the reader receives for a request of
\* requestUploadSlot finds the entry of that request in the upload buffer.
C37_SlotFindsItsEntry ==
    \A id \in FileIds : upFile[id].lookup # "missing"

\* C37 witness: the slot of a file arrived after requestUploadSlot had
\* stored the entry, and the entry was found.
C37_Witness ==
    \E id \in FileIds : upFile[id].pc = "stored" /\ upFile[id].lookup = "found"

\* C38: a file is announced to the room only if the upload of its bytes to
\* the slot succeeded; after a failed upload nothing is announced.
C38_AnnouncedOnlyAfterUpload ==
    \A id \in FileIds : upFile[id].announced # <<>> => upFile[id].put = "ok"

\* C38 witness: a file was uploaded, and was announced by the sharer message
\* followed by the URL.
C38_Witness ==
    \E id \in FileIds :
        upFile[id].put = "ok" /\ upFile[id].announced = <<"sharer", "oob">>

\* the announcement of a file is the sharer message, alone or followed by
\* the URL, and only files whose entry was found are uploaded or announced
UploadTypeOK ==
    \A id \in FileIds :
        /\ upFile[id].announced \in {<<>>, <<"sharer">>, <<"sharer", "oob">>}
        /\ upFile[id].put # "none" => upFile[id].lookup = "found"

=============================================================================
